---- MODULE Spec2Model ----
(***************************************************************************)
(* The desktop application (dui/src-tauri) in two parts.                    *)
(*                                                                         *)
(* The service lifecycle supervisor: PID files, process probes, health     *)
(* checks, status / reconcile / start / stop for the two managed services, *)
(* bb-api and bb-bui (specification Spec).                                 *)
(*                                                                         *)
(* The local reverse proxy: its construction at startup (specification     *)
(* SpecStartup) and its commands, request handling and WebSocket sessions  *)
(* (specification SpecProxy); it is described where its definitions begin. *)
(* The two parts share no state, so each specification moves the variables *)
(* of one part and leaves the other part as it starts.                     *)
(*                                                                         *)
(* One behaviour follows ONE service (svc) on ONE build target (platform); *)
(* both are chosen in Init and never change.  The two services share no    *)
(* state in the code except the OS process table, which is modelled.       *)
(*                                                                         *)
(* Environment: processes come and go outside the supervisor and a service *)
(* process may begin or cease to answer its health endpoint.  What a call  *)
(* reads from the file system besides the PID file (is the binary          *)
(* installed, does config.yaml parse, which TLS flag does it hold) is an   *)
(* input of the step that reads it.  A process owned by another user is    *)
(* invisible to kill(pid, 0) and is therefore the same as no process;      *)
(* "other" stands for an unrelated process of the same user (PID reuse).   *)
(* File-system calls on the runtime directory succeed, except the write of *)
(* the PID file in start, whose failure the code handles.                  *)
(*                                                                         *)
(* start and stop sleep between their steps, so they are sequences of      *)
(* steps with the environment running in between; status and reconcile do *)
(* not sleep and are one step.  ret holds the result of a call in the      *)
(* state in which the call returns, and is cleared by the next step.       *)
(***************************************************************************)
EXTENDS Integers, FiniteSets, Sequences, TLC

\* the supervisor
VARIABLES svc, platform, procs, listener, listenTls, pidFile, call, ret, prev

\* a second start call of the service, suspended while the first one runs
VARIABLE other

\* the reverse proxy
VARIABLES proxy, serving, req, ws, pret

\* the start() calls of the proxy in flight, one entry per caller
VARIABLE starts

\* the frames each forwarding loop of the WebSocket session has read and
\* delivered so far
VARIABLE relay

\* application startup: where run() is, and how the service step ended
VARIABLE boot

\* the four tokio RwLocks of the proxy, and where each task that takes them
\* is in its sequence of acquisitions
VARIABLES locks, ltask

svars ==
    <<svc, platform, procs, listener, listenTls, pidFile, call, ret, prev,
      other>>

lvars == <<locks, ltask>>

gvars == <<relay, boot, lvars>>

pvars == <<proxy, serving, req, ws, pret, starts, gvars>>

vars == <<svars, pvars>>

----------------------------------------------------------------------------
(* Bounds *)

\* PIDs the operating system hands out
MaxPid == 2

Pids == 1..MaxPid

\* Option<i32>::None
None == 0

Services == {"api", "bui"}

\* build targets; Windows lays its PID files out as macOS does (one runtime
\* directory for all modules) and is not followed separately
Platforms == {"macos", "linux"}

\* the three source modules that implement status / reconcile
Modules == {"api_status", "bui_status", "server_status"}

----------------------------------------------------------------------------
(* PidStore *)

API_PID_FILE_NAME == "api.pid"

BUI_PID_FILE_NAME == "bui.pid"

\* the runtime directory each module resolves on each build target
get_app_runtime_dir(m, os) ==
    IF os = "macos" THEN "Library/Application Support/dev.beyondbetter.app/run"
    ELSE IF os = "windows" THEN "ProgramData/dev.beyondbetter.app/run"
    ELSE IF m = "api_status" THEN "home/.bb/run"
    ELSE "/var/run/dev.beyondbetter.app"

get_pid_file_path(m, s) ==
    <<get_app_runtime_dir(m, platform),
      IF s = "api" THEN API_PID_FILE_NAME ELSE BUI_PID_FILE_NAME>>

\* every PID-file path some module can resolve
Paths ==
    {<<get_app_runtime_dir(m, os), f>> :
        m \in Modules, os \in Platforms, f \in {API_PID_FILE_NAME, BUI_PID_FILE_NAME}}

\* the module whose functions start / stop of a service call
OwnModule(s) == IF s = "api" THEN "api_status" ELSE "bui_status"

\* the modules that offer status / reconcile for a service
ModulesOf(s) == {OwnModule(s), "server_status"}

\* file content on which content.trim().parse::<i32>() fails: empty,
\* half-written, not a number
Unparsable == -1

\* a read that hands the file content on as it is
get_pid_raw(files, m, s) == files[get_pid_file_path(m, s)]

\* fs::read_to_string, then content.trim().parse::<i32>(): Some(pid) for a
\* number, None for an absent file and for content that does not parse
get_pid(files, m, s) ==
    LET content == files[get_pid_file_path(m, s)] IN
    IF content = None THEN None
    ELSE IF content = Unparsable THEN None
    ELSE content

\* a save that writes nothing
save_pid_dropped(files, m, s, pid) == files

\* fs::write(pid_file, pid.to_string())
save_pid(files, m, s, pid) == [files EXCEPT ![get_pid_file_path(m, s)] = pid]

\* remove_pid that leaves the file where it is
remove_pid_kept(files, m, s) == files

remove_pid(files, m, s) == [files EXCEPT ![get_pid_file_path(m, s)] = None]

----------------------------------------------------------------------------
(* ProcessProbe *)

BinName(s) == IF s = "api" THEN "bb-api" ELSE "bb-bui"

\* a liveness test that finds no process alive
check_process_exists_never(pid) == FALSE

\* kill(pid, 0) == 0
check_process_exists(pid) == pid \in Pids /\ procs[pid] # "none"

\* pgrep <process_name>
find_all_processes(name) == {p \in Pids : procs[p] = name}

----------------------------------------------------------------------------
(* HealthChecker *)

\* GET {scheme}://{hostname}:{port}/api/v1/status answers 2xx
HttpGet(tls) == listener # None /\ listenTls = tls

\* api_status tries the configured scheme, then the other one;
\* bui_status and server_status try the configured scheme only.
\* Result: <<responds, number of HTTP requests issued>>
check_responds(m, use_tls) ==
    IF HttpGet(use_tls) THEN <<TRUE, 1>>
    ELSE IF m = "api_status" THEN <<HttpGet(~use_tls), 2>>
    ELSE <<FALSE, 1>>

\* what read_global_config() returns: does config.yaml parse, and its use_tls
Configs == [ok : BOOLEAN, use_tls : BOOLEAN]

----------------------------------------------------------------------------
(* ServiceSupervisor: status and reconcile *)

\* a status record whose process_responds does not follow the health probe
StatusOf_unlinked(err, pid, pex, resp, probes, reqs) ==
    [err |-> err, pid |-> pid, pid_exists |-> pex, process_responds |-> FALSE,
     service_responds |-> resp, procProbes |-> probes, httpReqs |-> reqs]

\* the ServiceStatus / ApiStatusCheck record: both response flags are set
\* from the one health probe
StatusOf(err, pid, pex, resp, probes, reqs) ==
    [err |-> err, pid |-> pid, pid_exists |-> pex, process_responds |-> resp,
     service_responds |-> resp, procProbes |-> probes, httpReqs |-> reqs]

NoStatus == StatusOf(FALSE, None, FALSE, FALSE, 0, 0)

\* a status check without the level-1 short-circuit: with no PID file it
\* still asks the health endpoint
check_status_always_probes(files, m, s, cfg) ==
    LET pid == get_pid(files, m, s)
        r   == check_responds(m, cfg.use_tls) IN
    IF pid = None THEN StatusOf(FALSE, None, FALSE, r[1], 0, r[2])
    ELSE IF ~check_process_exists(pid) THEN StatusOf(FALSE, pid, FALSE, FALSE, 1, 0)
    ELSE IF ~cfg.ok THEN StatusOf(TRUE, pid, TRUE, FALSE, 1, 0)
    ELSE StatusOf(FALSE, pid, TRUE, r[1], 1, r[2])

\* check_api_status / check_bui_status / check_service_status
check_status(files, m, s, cfg) ==
    LET pid == get_pid(files, m, s) IN
    IF pid = None THEN StatusOf(FALSE, None, FALSE, FALSE, 0, 0)
    ELSE IF ~check_process_exists(pid) THEN StatusOf(FALSE, pid, FALSE, FALSE, 1, 0)
    ELSE IF ~cfg.ok THEN StatusOf(TRUE, pid, TRUE, FALSE, 1, 0)
    ELSE LET r == check_responds(m, cfg.use_tls) IN
         StatusOf(FALSE, pid, TRUE, r[1], 1, r[2])

\* a reconcile that takes "does not respond" for "does not exist" and removes
\* the PID file of a live, unresponsive process
reconcile_files_unresponsive(files, m, s, cfg) ==
    LET status == check_status(files, m, s, cfg)
        pid    == get_pid(files, m, s) IN
    IF status.err THEN files
    ELSE IF ~status.service_responds /\ pid # None THEN remove_pid(files, m, s)
    ELSE files

\* reconcile_api_pid_state / reconcile_bui_pid_state / reconcile_service_state:
\* the PID files after the call
reconcile_files(files, m, s, cfg) ==
    LET status == check_status(files, m, s, cfg)
        pid    == get_pid(files, m, s) IN
    IF status.err THEN files
    ELSE IF ~status.pid_exists /\ pid # None THEN remove_pid(files, m, s)
    ELSE IF status.pid_exists /\ ~status.service_responds THEN files
    ELSE IF status.service_responds /\ pid = None
         THEN IF status.pid # None THEN save_pid(files, m, s, status.pid) ELSE files
    ELSE files

----------------------------------------------------------------------------
(* Call records *)

\* a start or stop call in flight: where it is, and what it has done so far
\* (saved: the PID file took the PID of the spawned process; unforced: the
\* processes found alive after the wait that follows their SIGTERM and sent
\* no SIGKILL)
Idle == [op |-> "idle", pc |-> "idle", attempt |-> 0, pid |-> None,
         spawned |-> 0, reconciled |-> FALSE, preResp |-> FALSE, todo |-> {},
         signalled |-> {}, matched |-> {}, flag |-> FALSE,
         saved |-> FALSE, unforced |-> {}]

\* the result of a call, with what the call saw and did
RetWith(op, m, st, before) ==
    [op |-> op, module |-> m, err |-> st.err, success |-> FALSE, pid |-> st.pid,
     pid_exists |-> st.pid_exists, process_responds |-> st.process_responds,
     service_responds |-> st.service_responds, requires_settings |-> FALSE,
     procProbes |-> st.procProbes, httpReqs |-> st.httpReqs,
     found |-> TRUE, preFile |-> None, preResp |-> FALSE,
     spawned |-> 0, spawnPid |-> None,
     attempts |-> 0, reconciled |-> FALSE, signalled |-> {}, matched |-> {},
     saved |-> FALSE, unforced |-> {},
     before |-> before]

RetOf(op, m, st) == RetWith(op, m, st, prev)

RetNone == RetWith("none", "none", NoStatus, <<"other", 0>>)

\* what a call leaves for the next call to compare with: was it a start, and
\* how many processes did it spawn; was it a status that found a PID file
\* naming no process
PrevOf(r) ==
    IF r.op = "start" THEN <<"start", r.spawned>>
    ELSE IF r.op = "status" /\ r.pid # None /\ ~r.pid_exists THEN <<"stale", 0>>
    ELSE <<"other", 0>>

\* the supervisor before its first call: no managed process, no PID file
InitSupervisor ==
    /\ procs = [p \in Pids |-> "none"]
    /\ listener = None
    /\ listenTls = FALSE
    /\ pidFile = [f \in Paths |-> None]
    /\ call = Idle
    /\ other = Idle
    /\ ret = RetNone
    /\ prev = <<"other", 0>>

----------------------------------------------------------------------------
(* Environment *)

\* a process starts outside the supervisor (earlier session, command line)
ExtSpawn ==
    /\ UNCHANGED <<pvars, other>>
    /\ \E p \in Pids, n \in {BinName(svc), "other"} :
          /\ procs[p] = "none"
          /\ procs' = [procs EXCEPT ![p] = n]
    /\ ret' = RetNone
    /\ UNCHANGED <<svc, platform, listener, listenTls, pidFile, call, prev>>

\* a process exits (by itself, or as the late effect of a signal)
ProcExit ==
    /\ UNCHANGED <<pvars, other>>
    /\ \E p \in Pids :
          /\ procs[p] # "none"
          /\ procs' = [procs EXCEPT ![p] = "none"]
          /\ listener' = IF listener = p THEN None ELSE listener
    /\ ret' = RetNone
    /\ UNCHANGED <<svc, platform, listenTls, pidFile, call, prev>>

\* a service process binds the port and begins to answer the health endpoint
ProcServe ==
    /\ UNCHANGED <<pvars, other>>
    /\ listener = None
    /\ \E p \in Pids, tls \in BOOLEAN :
          /\ procs[p] = BinName(svc)
          /\ listener' = p
          /\ listenTls' = tls
    /\ ret' = RetNone
    /\ UNCHANGED <<svc, platform, procs, pidFile, call, prev>>

\* the serving process stops answering while it stays alive
ProcHang ==
    /\ UNCHANGED <<pvars, other>>
    /\ listener # None
    /\ listener' = None
    /\ ret' = RetNone
    /\ UNCHANGED <<svc, platform, procs, listenTls, pidFile, call, prev>>

\* a PID file of the service is left with content that is not a number (a
\* write cut short, an empty file)
FileCorrupt ==
    /\ UNCHANGED <<pvars, other>>
    /\ \E m \in ModulesOf(svc) :
          /\ pidFile[get_pid_file_path(m, svc)] # Unparsable
          /\ pidFile' = [pidFile EXCEPT ![get_pid_file_path(m, svc)] = Unparsable]
    /\ ret' = RetNone
    /\ UNCHANGED <<svc, platform, procs, listener, listenTls, call, prev>>

Env == ExtSpawn \/ ProcExit \/ ProcServe \/ ProcHang

----------------------------------------------------------------------------
(* Commands that complete in one step *)

\* #[command] check_api_status / check_bui_status / check_server_status
Status ==
    /\ UNCHANGED <<pvars, other>>
    /\ call.op = "idle"
    /\ \E m \in ModulesOf(svc), cfg \in Configs :
          ret' = RetOf("status", m, check_status(pidFile, m, svc, cfg))
    /\ prev' = PrevOf(ret')
    /\ UNCHANGED <<svc, platform, procs, listener, listenTls, pidFile, call>>

\* reconcile_api_pid_state / reconcile_bui_pid_state / reconcile_service_state
Reconcile ==
    /\ UNCHANGED <<pvars, other>>
    /\ call.op = "idle"
    /\ \E m \in ModulesOf(svc), cfg \in Configs :
          /\ pidFile' = reconcile_files(pidFile, m, svc, cfg)
          /\ ret' = [RetOf("reconcile", m, check_status(pidFile, m, svc, cfg))
                        EXCEPT !.preFile = get_pid(pidFile, m, svc)]
    /\ prev' = PrevOf(ret')
    /\ UNCHANGED <<svc, platform, procs, listener, listenTls, call>>

----------------------------------------------------------------------------
(* start_api / start_bui *)

\* let max_attempts = 10;
max_attempts == 10

\* requires_settings of the result returned when the binary is not found
not_found_requires_settings(s) == IF s = "api" THEN FALSE ELSE TRUE

\* the result of a start call that ends now
StartRet(c, st, ok, pid) ==
    [RetOf("start", OwnModule(svc), st) EXCEPT
        !.success = ok, !.pid = pid, !.spawned = c.spawned, !.spawnPid = c.pid,
        !.attempts = c.attempt, !.reconciled = c.reconciled,
        !.preResp = c.preResp, !.saved = c.saved]

\* a start that never takes the early return
already_running_never(status) == FALSE

\* "Check if API is already running": if status.api_responds { return ... }
already_running(status) == status.service_responds

\* the PID file of module m names a live process and the health endpoint
\* answers on a scheme that module tries under configuration cfg
Responding(m, cfg) ==
    /\ get_pid(pidFile, m, svc) # None
    /\ procs[get_pid(pidFile, m, svc)] # "none"
    /\ listener # None
    /\ (listenTls = cfg.use_tls \/ m = "api_status")

\* a polling loop that gives up one attempt early
probe_outcome_early(st, attempt) ==
    IF ~st.err /\ st.service_responds THEN "success"
    ELSE IF attempt + 1 >= max_attempts THEN "fail"
    ELSE "continue"

\* the arm of the match in the polling loop taken at this attempt
probe_outcome(st, attempt) ==
    IF ~st.err /\ st.service_responds THEN "success"
    ELSE IF attempt = max_attempts THEN "fail"
    ELSE "continue"

\* a start that waits while another start call of the service is in flight
start_admitted_exclusive(o) == o.op = "idle"

\* start_api / start_bui take no lock on entry: a call begins whatever other
\* start call of the service is in flight
start_admitted(o) == TRUE

\* verify_*_requirements, reconcile, first status check
StartBegin ==
    /\ UNCHANGED <<pvars, other>>
    /\ call.op = "idle"
    /\ start_admitted(other)
    /\ \E found \in BOOLEAN, cfg \in Configs :
       LET m   == OwnModule(svc)
           c0  == [Idle EXCEPT !.preResp = Responding(m, cfg)]
           c1  == [c0 EXCEPT !.reconciled = TRUE]
           st0 == check_status(pidFile, m, svc, cfg)
           f1  == reconcile_files(pidFile, m, svc, cfg)
           st1 == check_status(f1, m, svc, cfg)
           pre == get_pid(pidFile, m, svc) IN
       IF ~found
       THEN /\ ret' = [StartRet(c0, NoStatus, FALSE, None) EXCEPT
                          !.found = FALSE, !.preFile = pre,
                          !.requires_settings = not_found_requires_settings(svc)]
            /\ UNCHANGED <<call, pidFile>>
       ELSE IF st0.err
       THEN /\ ret' = [StartRet(c1, st0, FALSE, None) EXCEPT !.preFile = pre]
            /\ UNCHANGED <<call, pidFile>>
       ELSE /\ pidFile' = f1
            /\ IF already_running(st1)
               THEN /\ ret' = [StartRet(c1, st1, TRUE, st1.pid) EXCEPT !.preFile = pre]
                    /\ UNCHANGED call
               ELSE /\ call' = [c1 EXCEPT !.op = "start", !.pc = "spawn"]
                    /\ ret' = RetNone
    /\ prev' = IF ret'.op = "none" THEN prev ELSE PrevOf(ret')
    /\ UNCHANGED <<svc, platform, procs, listener, listenTls>>

\* read the configuration, locate the binary, create the log directory,
\* spawn the process, save its PID
StartSpawn ==
    /\ UNCHANGED <<pvars, other>>
    /\ call.op = "start" /\ call.pc = "spawn"
    /\ UNCHANGED <<svc, platform, listener, listenTls>>
    /\ \/ \* config.yaml does not parse, or the binary has gone: Err
          /\ ret' = [StartRet(call, NoStatus, FALSE, None) EXCEPT !.err = TRUE]
          /\ call' = Idle
          /\ UNCHANGED <<procs, pidFile>>
       \/ \* the log directory cannot be created, or the spawn fails
          /\ ret' = StartRet(call, NoStatus, FALSE, None)
          /\ call' = Idle
          /\ UNCHANGED <<procs, pidFile>>
       \/ \E p \in Pids, saved \in BOOLEAN :
             /\ procs[p] = "none"
             /\ procs' = [procs EXCEPT ![p] = BinName(svc)]
             /\ pidFile' = IF saved THEN save_pid(pidFile, OwnModule(svc), svc, p)
                           ELSE pidFile
             /\ call' = [call EXCEPT !.pc = "probe", !.pid = p, !.spawned = 1,
                                     !.saved = saved]
             /\ ret' = RetNone
    /\ prev' = IF ret'.op = "none" THEN prev ELSE PrevOf(ret')

\* one turn of the polling loop: sleep 500 ms, check the status
StartProbe ==
    /\ UNCHANGED <<pvars, other>>
    /\ call.op = "start" /\ call.pc = "probe"
    /\ \E cfg \in Configs :
       LET st == check_status(pidFile, OwnModule(svc), svc, cfg)
           c  == [call EXCEPT !.attempt = call.attempt + 1]
           o  == probe_outcome(st, c.attempt) IN
       IF o = "success"
       THEN /\ ret' = StartRet(c, st, TRUE, call.pid)
            /\ call' = Idle
       ELSE IF o = "fail"
       THEN /\ ret' = [StartRet(c, st, FALSE, call.pid) EXCEPT !.err = FALSE]
            /\ call' = Idle
       ELSE /\ call' = [c EXCEPT !.flag = call.flag \/ (~st.err /\ st.service_responds)]
            /\ ret' = RetNone
    /\ prev' = IF ret'.op = "none" THEN prev ELSE PrevOf(ret')
    /\ UNCHANGED <<svc, platform, procs, listener, listenTls, pidFile>>

----------------------------------------------------------------------------
(* stop_api *)

\* the result of a stop call that ends now
StopRet(c, st, ok) ==
    [RetOf("stop", OwnModule(svc), st) EXCEPT
        !.success = ok, !.attempts = c.attempt,
        !.signalled = c.signalled, !.matched = c.matched,
        !.unforced = c.unforced]

\* status check, then SIGTERM (TerminateProcess on Windows) to the PID of the
\* PID file
StopApiBegin ==
    /\ UNCHANGED <<pvars, other>>
    /\ call.op = "idle" /\ svc = "api"
    /\ \E cfg \in Configs :
       LET st == check_status(pidFile, "api_status", svc, cfg)
           c0 == [Idle EXCEPT !.matched = find_all_processes(BinName(svc))] IN
       IF st.err
       THEN /\ ret' = StopRet(c0, st, FALSE)
            /\ UNCHANGED <<call, pidFile>>
       ELSE IF ~st.pid_exists /\ ~st.service_responds
       THEN /\ pidFile' = remove_pid(pidFile, "api_status", svc)
            /\ ret' = StopRet(c0, st, FALSE)
            /\ UNCHANGED call
       ELSE IF st.pid # None
       THEN /\ call' = [c0 EXCEPT !.op = "stop", !.pc = "wait", !.pid = st.pid,
                                  !.signalled = {st.pid},
                                  !.flag = check_process_exists(st.pid)]
            /\ ret' = RetNone
            /\ UNCHANGED pidFile
       ELSE /\ ret' = StopRet(c0, st, FALSE)
            /\ UNCHANGED <<call, pidFile>>
    /\ prev' = IF ret'.op = "none" THEN prev ELSE PrevOf(ret')
    /\ UNCHANGED <<svc, platform, procs, listener, listenTls>>

\* one turn of the waiting loop: sleep 500 ms, check the status
StopApiProbe ==
    /\ UNCHANGED <<pvars, other>>
    /\ call.op = "stop" /\ call.pc = "wait"
    /\ \E cfg \in Configs :
       LET st == check_status(pidFile, "api_status", svc, cfg)
           c  == [call EXCEPT !.attempt = call.attempt + 1] IN
       IF ~st.err /\ ~st.service_responds /\ ~st.pid_exists
       THEN /\ pidFile' = remove_pid(pidFile, "api_status", svc)
            /\ ret' = StopRet(c, st, TRUE)
            /\ call' = Idle
       ELSE IF c.attempt = max_attempts
       THEN /\ ret' = [StopRet(c, st, call.flag) EXCEPT
                          !.err = FALSE,
                          !.unforced = {q \in {call.pid} :
                                           check_process_exists(q)}]
            /\ call' = Idle
            /\ UNCHANGED pidFile
       ELSE /\ call' = c
            /\ ret' = RetNone
            /\ UNCHANGED pidFile
    /\ prev' = IF ret'.op = "none" THEN prev ELSE PrevOf(ret')
    /\ UNCHANGED <<svc, platform, procs, listener, listenTls>>

----------------------------------------------------------------------------
(* stop_bui *)

\* bui_status::find_all_bui_processes, which stop_bui imports; taken to list
\* the bb-bui processes as find_all_api_processes lists the bb-api ones
find_all_bui_processes == find_all_processes("bb-bui")

\* find every bb-bui process
StopBuiBegin ==
    /\ UNCHANGED <<pvars, other>>
    /\ call.op = "idle" /\ svc = "bui"
    /\ LET all_pids == find_all_bui_processes
           c0 == [Idle EXCEPT !.matched = all_pids] IN
       IF all_pids = {}
       THEN /\ pidFile' = remove_pid(pidFile, "bui_status", svc)
            /\ ret' = StopRet(c0, NoStatus, TRUE)
            /\ UNCHANGED call
       ELSE /\ call' = [c0 EXCEPT !.op = "stop", !.pc = "terminate",
                                  !.todo = all_pids, !.flag = TRUE]
            /\ ret' = RetNone
            /\ UNCHANGED pidFile
    /\ prev' = IF ret'.op = "none" THEN prev ELSE PrevOf(ret')
    /\ UNCHANGED <<svc, platform, procs, listener, listenTls>>

Min(S) == CHOOSE x \in S : \A y \in S : x <= y

\* robust_terminate_process(pid, name): SIGTERM, wait 2 s, SIGKILL if the
\* SIGTERM could not be sent or the process is still there, wait 1 s; TRUE
\* iff the process is gone at the end.
\* diesTerm: the process has exited by the end of the first wait;
\* dies: it has exited by the end of the waits.
robust_terminate_process(pid, diesTerm, dies) ==
    LET graceful_result == check_process_exists(pid)
        gone     == ~graceful_result \/ diesTerm
        survived == IF gone THEN {} ELSE {pid}
        forced   == IF graceful_result /\ diesTerm THEN {} ELSE {pid} IN
    [procs    |-> IF dies \/ diesTerm THEN [procs EXCEPT ![pid] = "none"]
                  ELSE procs,
     success  |-> dies \/ gone,
     unforced |-> survived \ forced]

\* for pid in all_pids: robust_terminate_process(pid, "bb-bui")
StopBuiTerminate ==
    /\ UNCHANGED <<pvars, other>>
    /\ call.op = "stop" /\ call.pc = "terminate" /\ call.todo # {}
    /\ \E diesTerm \in BOOLEAN, dies \in BOOLEAN :
       LET pid == Min(call.todo)
           r   == robust_terminate_process(pid, diesTerm, dies) IN
       /\ procs' = r.procs
       /\ listener' = IF listener = pid /\ r.procs[pid] = "none" THEN None ELSE listener
       /\ call' = [call EXCEPT !.todo = call.todo \ {pid},
                               !.signalled = call.signalled \cup {pid},
                               !.unforced = call.unforced \cup r.unforced,
                               !.flag = call.flag /\ r.success]
    /\ ret' = RetNone
    /\ UNCHANGED <<svc, platform, listenTls, pidFile, prev>>

\* "Clean up PID file regardless"
StopBuiCleanup ==
    /\ UNCHANGED <<pvars, other>>
    /\ call.op = "stop" /\ call.pc = "terminate" /\ call.todo = {}
    /\ pidFile' = remove_pid(pidFile, "bui_status", svc)
    /\ call' = [call EXCEPT !.pc = "settle"]
    /\ ret' = RetNone
    /\ UNCHANGED <<svc, platform, procs, listener, listenTls, prev>>

\* sleep 1 s, then look for remaining bb-bui processes
StopBuiVerify ==
    /\ UNCHANGED <<pvars, other>>
    /\ call.op = "stop" /\ call.pc = "settle"
    /\ ret' = StopRet(call, NoStatus, call.flag /\ find_all_bui_processes = {})
    /\ call' = Idle
    /\ prev' = PrevOf(ret')
    /\ UNCHANGED <<svc, platform, procs, listener, listenTls, pidFile>>

Start == StartBegin \/ StartSpawn \/ StartProbe

\* two start commands of one service run as two tasks of the async runtime:
\* the one that was running stays where it is (it has not begun, or is
\* between two of its steps) and the other one runs on
Switch ==
    /\ UNCHANGED pvars
    /\ call.op \in {"idle", "start"}
    /\ other.op \in {"idle", "start"}
    /\ call # other
    /\ call' = other
    /\ other' = call
    /\ ret' = RetNone
    /\ UNCHANGED <<svc, platform, procs, listener, listenTls, pidFile, prev>>

Stop == StopApiBegin \/ StopApiProbe
        \/ StopBuiBegin \/ StopBuiTerminate \/ StopBuiCleanup \/ StopBuiVerify

----------------------------------------------------------------------------
(* ReverseProxy (proxy/mod.rs, commands/proxy.rs, logging/access.rs)       *)
(*                                                                         *)
(* The proxy is built once at application startup and then driven by the   *)
(* front end's commands (start, stop, set target, set debug mode, info)    *)
(* and by the requests its listener accepts.  A command is one step.  A    *)
(* plain request is two steps, the upstream exchange lying in between; a   *)
(* WebSocket session is a step for the upgrade and one step per turn of    *)
(* each forwarding loop.  One plain request and one WebSocket session are  *)
(* followed at a time.  pret describes the step just taken (what it        *)
(* returned, which upstream connections it opened, which access-log        *)
(* entries it emitted) and is replaced by the next step.                   *)
(*                                                                         *)
(* A URL string is the sequence of its lexical pieces: "https://localhost" *)
(* is <<"https", "://", "localhost">>, and the URL of a request to it is    *)
(* that sequence with the path appended.                                   *)

\* serving tasks that may exist at a time
MaxTasks == 2

\* the callers that may have a start() call of the proxy in flight
MaxCallers == 2

Callers == 1..MaxCallers

TaskIds == 1..MaxTasks

FALLBACK_PORTS ==
    <<45000, 45001, 45002, 45003, 45004, 45005, 45006, 45007, 45008, 45009>>

PortSet == {FALLBACK_PORTS[i] : i \in DOMAIN FALLBACK_PORTS}

DEFAULT_TARGET == <<"https", "://", "chat.beyondbetter.dev">>

\* the maintenance page with its placeholder for the error paragraph
MAINTENANCE_HTML ==
    << <<"html", "<body>">>, <<"html", "<!--ERROR_MESSAGE-->">>,
       <<"html", "</body>">> >>

\* str::replace on the pieces of a page
Replace(page, from, to) ==
    [i \in DOMAIN page |-> IF page[i] = from THEN to ELSE page[i]]

\* "<p class='text-red-600 dark:text-red-400'>Error: {}</p>"
ErrorParagraph(msg) == <<"Error: ", msg>>

\* the 500 / 504 body: the maintenance page with the error interpolated
MaintenancePage(msg) ==
    Replace(MAINTENANCE_HTML, <<"html", "<!--ERROR_MESSAGE-->">>,
            ErrorParagraph(msg))

\* what the front end may pass to set_proxy_target
TargetInputs ==
    { <<"https", "://", "localhost">>, <<"HTTPS", "://", "localhost">>,
      <<"http", "://", "localhost">>, <<"localhost">> }

\* the parser lower-cases the scheme
Lower(t) == IF t = "HTTPS" THEN "https" ELSE IF t = "HTTP" THEN "http" ELSE t

\* reqwest::Url::parse: a scheme, "://" and a host; a string without a
\* scheme is a relative URL without a base and does not parse
UrlParse(u) ==
    IF Len(u) >= 3 /\ Lower(u[1]) \in {"https", "http"} /\ u[2] = "://"
    THEN [ok |-> TRUE, scheme |-> Lower(u[1]), host |-> u[3]]
    ELSE [ok |-> FALSE, scheme |-> "", host |-> ""]

\* str::starts_with
StartsWith(u, pre) == Len(u) >= Len(pre) /\ SubSeq(u, 1, Len(pre)) = pre

\* str::strip_prefix(pre).unwrap_or(u)
StripPrefix(u, pre) ==
    IF StartsWith(u, pre) THEN SubSeq(u, Len(pre) + 1, Len(u)) ELSE u

\* requests the listener may receive: the path, an Upgrade: websocket
\* header, a Sec-WebSocket-Key header
Requests == [path : {"/_health", "/x"}, upgrade : BOOLEAN, key : BOOLEAN]

NoRequest == [path |-> "", upgrade |-> FALSE, key |-> FALSE]

is_websocket_request(r) == r.upgrade

\* error texts of a failed upstream request (e.to_string())
ErrorTexts == {"connection refused", "dns error"}

\* status codes an upstream answers with
UpstreamStatuses == {200, 302, 404}

\* what becomes of the upstream request of a plain request
Outcomes ==
    [kind : {"response"}, status : UpstreamStatuses, error : {""}]
        \cup [kind : {"error"}, status : {0}, error : ErrorTexts]
        \cup [kind : {"timeout"}, status : {0}, error : {""}]

\* WebSocket messages
Payloads == {"a", "b"}

Frames == [type : {"Ping", "Pong", "Text", "Binary", "Close"}, data : Payloads]

NoFrame == [type |-> "none", data |-> ""]

\* the stream ends or yields an error: next() is not Some(Ok(msg))
EndOfStream == [type |-> "end", data |-> ""]

Frame(type, data) == [type |-> type, data |-> data]

----------------------------------------------------------------------------
(* ReverseProxy: state *)

\* struct HttpProxy; st tells whether startup has built it
NoProxy ==
    [st |-> "unbuilt", port |-> None, target_url |-> <<>>,
     debug_mode |-> FALSE, server_handle |-> None]

\* a plain request between the two halves of handle_request
NoReq == [active |-> FALSE, target |-> <<>>, path |-> ""]

\* a WebSocket session: the spawned task and its two forwarding loops.
\* clientEnd: how the client side ended; after: turns the upstream-to-client
\* loop has taken since then (counted up to one)
NoWs ==
    [st |-> "none", s2c |-> "off", c2s |-> "off", clientEnd |-> "no",
     after |-> 0]

\* the proxy holds its connection to the upstream while the session task
\* waits for the upgrade or one of the loops still owns its half of the stream
UpstreamHeld ==
    \/ ws.st = "upgrading"
    \/ ws.st = "open" /\ (ws.s2c = "run" \/ ws.c2s = "run")

NoInfo == [port |-> None, target |-> <<>>, is_running |-> FALSE]

\* frames a forwarding loop may read before its history is full
MaxFrames == 2

\* per forwarding loop: the Text and Binary frames read from the sending
\* side, and those the receiving side has taken from send()
NoRelay ==
    [d \in {"s2c", "c2s"} |-> [recv |-> <<>>, sent |-> <<>>]]

\* the locks: target_url, debug_mode, access_logger, server_handle
\* (Arc<RwLock<..>> fields of HttpProxy, shared by every clone)
Locks == {"target_url", "debug_mode", "access_logger", "server_handle"}

\* the tasks that take them: two connections whose requests are handled
\* one after the other, and two callers that each have one command at a
\* time in flight
LockTasks == {"request1", "request2", "command1", "command2"}

\* the commands of commands/proxy.rs
Commands == {"set_target", "set_debug_mode", "start", "stop", "info"}

\* what a task may run
KindsOf(t) ==
    IF t \in {"request1", "request2"} THEN {"request"} ELSE Commands

\* a lock nobody holds or waits for; queue: the waiters in arrival order
FreeLock == [readers |-> {}, writer |-> "none", queue |-> <<>>]

\* a task that is not running; kind: the program it runs, pc: the next step
\* of that program
IdleTask == [kind |-> "idle", pc |-> 1, waiting |-> FALSE]

InitGhost ==
    /\ relay = NoRelay
    /\ locks = [l \in Locks |-> FreeLock]
    /\ ltask = [t \in LockTasks |-> IdleTask]

\* run() before its first step; services: "none" until
\* start_services_if_needed has returned, then "ok" or "err"
NoBoot == [pc |-> "services", services |-> "none"]

\* run() once the proxy state is in place
Booted == [pc |-> "done", services |-> "ok"]

\* a start() call of the proxy: where it is, and the task it has spawned
NoStart == [pc |-> "idle", task |-> None]

\* the record of a step: what it returned and did.  target0, handle0 and
\* serving0 are the target, the handle and the serving tasks a command found
\* (target0 of a request: the target its handler read, if it read one);
\* repeat tells that a stop follows a stop directly, panicked that the
\* application's main thread panicked
PRetOf(op) ==
    [op |-> op, repeat |-> FALSE, ok |-> TRUE, err |-> "", status |-> 0,
     panicked |-> FALSE, use_tls |-> FALSE,
     body |-> <<>>, upstream |-> <<>>, logged |-> <<>>,
     target0 |-> <<>>, handle0 |-> None, serving0 |-> {},
     spawned |-> {}, aborted |-> {}, occupied |-> {}, input |-> <<>>,
     info |-> NoInfo, request |-> NoRequest, outcome |-> "",
     recv |-> NoFrame, sent |-> <<>>]

PRetNone == PRetOf("none")

InitProxy ==
    /\ proxy = NoProxy
    /\ serving = {}
    /\ req = NoReq
    /\ ws = NoWs
    /\ pret = PRetNone
    /\ starts = [c \in Callers |-> NoStart]
    /\ InitGhost
    /\ boot = NoBoot

----------------------------------------------------------------------------
(* ReverseProxy: construction, start, stop *)

\* a port probe that takes every port for free
is_port_available_always(port, occupied) == TRUE

\* TcpListener::bind("127.0.0.1:{port}").is_ok()
is_port_available(port, occupied) == port \notin occupied

\* for &port in FALLBACK_PORTS { if is_port_available(port) { return ... } }
RECURSIVE try_ports(_, _)
try_ports(i, occupied) ==
    IF i > Len(FALLBACK_PORTS) THEN None
    ELSE IF is_port_available(FALLBACK_PORTS[i], occupied)
         THEN FALLBACK_PORTS[i]
    ELSE try_ports(i + 1, occupied)

\* HttpProxy::new
HttpProxy_new(occupied, dbg) ==
    LET port == try_ports(1, occupied) IN
    IF port = None
    THEN [ok |-> FALSE, err |-> "AddrInUse: No available ports in range",
          proxy |-> [NoProxy EXCEPT !.st = "failed"]]
    ELSE [ok |-> TRUE, err |-> "",
          proxy |-> [st |-> "built", port |-> port,
                     target_url |-> DEFAULT_TARGET, debug_mode |-> dbg,
                     server_handle |-> None]]

\* HttpProxy::is_running
is_running(p) == p.server_handle # None

\* a start that does not look whether the proxy is running
start_unchecked(p, srv, bound) ==
    IF ~bound \/ TaskIds \ srv = {}
    THEN [ok |-> FALSE, proxy |-> p, serving |-> srv, spawned |-> {}]
    ELSE LET t == Min(TaskIds \ srv) IN
         [ok |-> TRUE, proxy |-> [p EXCEPT !.server_handle = t],
          serving |-> srv \cup {t}, spawned |-> {t}]

\* HttpProxy::start; bound: does Server::bind get the port (it panics if
\* not, and the call returns nothing)
start(p, srv, bound) ==
    IF is_running(p)
    THEN [ok |-> TRUE, proxy |-> p, serving |-> srv, spawned |-> {}]
    ELSE IF ~bound
    THEN [ok |-> FALSE, proxy |-> p, serving |-> srv, spawned |-> {}]
    ELSE LET t == Min(TaskIds \ srv) IN
         [ok |-> TRUE, proxy |-> [p EXCEPT !.server_handle = t],
          serving |-> srv \cup {t}, spawned |-> {t}]

\* a stop that drops the handle without aborting the task
stop_no_abort(p, srv) ==
    [proxy |-> [p EXCEPT !.server_handle = None], serving |-> srv,
     aborted |-> {}]

\* HttpProxy::stop: if let Some(h) = handle.take() { h.abort() }
stop(p, srv) ==
    IF p.server_handle # None
    THEN [proxy |-> [p EXCEPT !.server_handle = None],
          serving |-> srv \ {p.server_handle},
          aborted |-> {p.server_handle} \cap srv]
    ELSE [proxy |-> p, serving |-> srv, aborted |-> {}]

\* run, on the result of start_proxy:
\* Err(e) => panic!("Failed to initialize proxy server: {}", e)
run_panics(ok) == ~ok

\* a run() that builds the proxy without waiting for the service step
proxy_due_early(b) == b.pc # "done"

\* run: the block_on of start_proxy follows the block_on of
\* start_services_if_needed
proxy_due(b) == b.pc = "proxy"

\* run / start_proxy at application startup: read the configuration, build
\* the proxy, start it unless the API uses TLS; an error panics, and so does
\* a bind that fails because the port was taken since it was probed
StartProxy ==
    /\ proxy.st = "unbuilt"
    /\ proxy_due(boot)
    /\ boot' = [boot EXCEPT !.pc = "done"]
    /\ \E cfg \in Configs, occupied \in SUBSET PortSet, dbg \in BOOLEAN,
          bound \in BOOLEAN :
       LET n == HttpProxy_new(occupied, dbg)
           r == start(n.proxy, serving, bound)
           base == [PRetOf("new") EXCEPT !.occupied = occupied,
                                         !.use_tls = cfg.use_tls] IN
       IF ~cfg.ok
       THEN /\ proxy' = [NoProxy EXCEPT !.st = "failed"]
            /\ pret' = [PRetOf("init") EXCEPT
                           !.ok = FALSE, !.err = "Failed to read config",
                           !.panicked = run_panics(FALSE)]
            /\ UNCHANGED serving
       ELSE IF ~n.ok
       THEN /\ proxy' = n.proxy
            /\ pret' = [base EXCEPT !.ok = FALSE, !.err = n.err,
                                     !.panicked = run_panics(FALSE)]
            /\ UNCHANGED serving
       ELSE IF ~cfg.use_tls
       THEN /\ proxy' = r.proxy
            /\ serving' = r.serving
            /\ pret' = [base EXCEPT
                           !.spawned = r.spawned,
                           !.err = IF r.ok THEN "" ELSE "panic: error binding",
                           !.panicked = ~r.ok \/ run_panics(TRUE)]
       ELSE /\ proxy' = n.proxy
            /\ pret' = [base EXCEPT !.panicked = run_panics(TRUE)]
            /\ UNCHANGED serving
    /\ UNCHANGED <<req, ws>>
    /\ UNCHANGED <<svars, starts, relay, lvars>>

\* #[command] start_proxy_server
ProxyStart ==
    /\ proxy.st = "built"
    /\ \E bound \in BOOLEAN :
       LET r == start(proxy, serving, bound) IN
       /\ proxy' = r.proxy
       /\ serving' = r.serving
       /\ pret' = [PRetOf("start") EXCEPT
                      !.ok = r.ok, !.spawned = r.spawned,
                      !.err = IF r.ok THEN "" ELSE "panic: error binding",
                      !.handle0 = proxy.server_handle, !.serving0 = serving]
    /\ UNCHANGED <<req, ws>>
    /\ UNCHANGED <<svars, starts, gvars>>

\* #[command] stop_proxy_server
ProxyStop ==
    /\ proxy.st = "built"
    /\ LET r == stop(proxy, serving) IN
       /\ proxy' = r.proxy
       /\ serving' = r.serving
       /\ pret' = [PRetOf("stop") EXCEPT
                      !.aborted = r.aborted, !.repeat = (pret.op = "stop"),
                      !.handle0 = proxy.server_handle, !.serving0 = serving]
    /\ UNCHANGED <<req, ws>>
    /\ UNCHANGED <<svars, starts, gvars>>

\* the serving task ends by itself: server.await returns in the spawned
\* task, which logs "Proxy server error" if it is an Err; the task does not
\* touch the stored handle
TaskExit ==
    /\ proxy.st = "built"
    /\ \E t \in serving : serving' = serving \ {t}
    /\ pret' = PRetOf("exit")
    /\ UNCHANGED <<proxy, req, ws>>
    /\ UNCHANGED <<svars, starts, gvars>>

----------------------------------------------------------------------------
(* ReverseProxy: start() step by step.  The commands hold the outer lock   *)
(* of the proxy state for reading only, so start and stop calls overlap;   *)
(* start gives way at its lock acquisitions: after is_running() has        *)
(* released the handle's read lock, and before it takes the write lock to  *)
(* store the handle.  stop holds the write lock from the take to the abort *)
(* and is one step.                                                        *)

\* task identities not in use: not serving, not stored, not held by a call
FreshTasks ==
    TaskIds \ (serving \cup {proxy.server_handle}
                       \cup {starts[c].task : c \in Callers})

\* Server::bind(&addr): the port is taken while a serving task listens on
\* it; free tells whether anything else holds it
bind_ok(srv, free) == free /\ srv = {}

\* start up to "if self.is_running().await { return Ok(()) }"
StartCheck(c) ==
    /\ proxy.st = "built"
    /\ starts[c].pc = "idle"
    /\ IF is_running(proxy)
       THEN /\ pret' = [PRetOf("start") EXCEPT
                           !.handle0 = proxy.server_handle,
                           !.serving0 = serving]
            /\ UNCHANGED starts
       ELSE /\ starts' = [starts EXCEPT ![c].pc = "bind"]
            /\ pret' = PRetNone
    /\ UNCHANGED <<proxy, serving, req, ws>>
    /\ UNCHANGED <<svars, gvars>>

\* Server::bind(&addr).serve(make_svc) and tokio::spawn; a failed bind
\* panics and ends the call
StartBind(c) ==
    /\ starts[c].pc = "bind"
    /\ \E free \in BOOLEAN :
       IF bind_ok(serving, free)
       THEN /\ FreshTasks # {}
            /\ LET t == Min(FreshTasks) IN
               /\ serving' = serving \cup {t}
               /\ starts' = [starts EXCEPT ![c] = [pc |-> "store", task |-> t]]
            /\ pret' = PRetNone
       ELSE /\ starts' = [starts EXCEPT ![c] = NoStart]
            /\ pret' = [PRetOf("start") EXCEPT
                           !.ok = FALSE, !.err = "panic: error binding"]
            /\ UNCHANGED serving
    /\ UNCHANGED <<proxy, req, ws>>
    /\ UNCHANGED <<svars, gvars>>

\* *self.server_handle.write().await = Some(handle); Ok(())
StartStore(c) ==
    /\ starts[c].pc = "store"
    /\ proxy' = [proxy EXCEPT !.server_handle = starts[c].task]
    /\ starts' = [starts EXCEPT ![c] = NoStart]
    /\ pret' = [PRetOf("start") EXCEPT
                   !.spawned = {starts[c].task},
                   !.handle0 = proxy.server_handle,
                   !.serving0 = serving]
    /\ UNCHANGED <<serving, req, ws>>
    /\ UNCHANGED <<svars, gvars>>

----------------------------------------------------------------------------
(* ReverseProxy: target, debug mode, info *)

\* a validation that accepts any URL that parses
target_accepted_any_scheme(target) == UrlParse(target).ok

\* set_proxy_target: Url::parse(&target) is Ok and scheme() == "https"
target_accepted(target) ==
    UrlParse(target).ok /\ UrlParse(target).scheme = "https"

\* #[command] set_proxy_target
SetTarget ==
    /\ proxy.st = "built"
    /\ \E target \in TargetInputs :
          /\ proxy' = IF target_accepted(target)
                      THEN [proxy EXCEPT !.target_url = target]
                      ELSE proxy
          /\ pret' = [PRetOf("set_target") EXCEPT
                         !.input = target,
                         !.target0 = proxy.target_url,
                         !.ok = target_accepted(target),
                         !.err = IF target_accepted(target) THEN ""
                                 ELSE IF UrlParse(target).ok
                                 THEN "Invalid URL scheme"
                                 ELSE "Invalid target URL"]
    /\ UNCHANGED <<serving, req, ws>>
    /\ UNCHANGED <<svars, starts, gvars>>

\* #[command] set_debug_mode
SetDebugMode ==
    /\ proxy.st = "built"
    /\ \E b \in BOOLEAN : proxy' = [proxy EXCEPT !.debug_mode = b]
    /\ pret' = PRetOf("set_debug_mode")
    /\ UNCHANGED <<serving, req, ws>>
    /\ UNCHANGED <<svars, starts, gvars>>

\* #[command] get_proxy_info
get_proxy_info(p) ==
    [port |-> p.port, target |-> p.target_url, is_running |-> is_running(p)]

GetInfo ==
    /\ proxy.st = "built"
    /\ pret' = [PRetOf("info") EXCEPT !.info = get_proxy_info(proxy)]
    /\ UNCHANGED <<proxy, serving, req, ws>>
    /\ UNCHANGED <<svars, starts, gvars>>

----------------------------------------------------------------------------
(* ReverseProxy: requests *)

\* "Convert http(s):// to ws(s):// for the target URL"
ws_target(target, path) ==
    IF StartsWith(target, <<"https", "://">>)
    THEN <<"wss", "://">> \o StripPrefix(target, <<"https", "://">>) \o <<path>>
    ELSE <<"ws", "://">> \o StripPrefix(target, <<"http", "://">>) \o <<path>>

\* a request-time check that lets every target through
https_check_skipped(url) == TRUE

\* "Ensuring target uses HTTPS scheme": url.starts_with("https://")
https_check(url) == StartsWith(url, <<"https", "://">>)

\* struct AccessLogEntry (without the clock readings); error is an Option
AccessLogEntry(path, status, target, error) ==
    [method |-> "GET", path |-> path, status |-> status, target |-> target,
     error |-> error]

\* a logger that keeps errors to itself unless debug mode is on
log_request_debug_only(debug_mode, entry) ==
    IF debug_mode THEN <<entry>> ELSE <<>>

\* AccessLogger::log_request: the entries it emits
log_request(debug_mode, entry) ==
    IF debug_mode \/ entry.status >= 400 \/ entry.error # <<>>
    THEN <<entry>> ELSE <<>>

\* a log_access whose logger takes debug mode for on
log_access_debug_on(p, path, status, target, error) ==
    log_request(TRUE, AccessLogEntry(path, status, target, error))

\* HttpProxy::log_access, with the debug mode in force at the call
log_access(p, path, status, target, error) ==
    log_request(p.debug_mode, AccessLogEntry(path, status, target, error))

\* a health test that leaves upgrade requests to the WebSocket path
is_health_request_unless_upgrade(r) == r.path = "/_health" /\ ~r.upgrade

\* "Handle health check endpoint": req.uri().path() == "/_health"
is_health_request(r) == r.path = "/_health"

\* handle_request up to the point where the upstream request is issued, and
\* handle_websocket_request up to its response
HandleRequest ==
    /\ proxy.st = "built"
    /\ serving # {}
    /\ \E r \in Requests, connected \in BOOLEAN :
       LET health == [PRetOf("request") EXCEPT !.request = r]
           target == proxy.target_url
           base   == [health EXCEPT !.target0 = target]
           wsT    == ws_target(target, r.path)
           url    == target \o <<r.path>> IN
       IF is_health_request(r)
       THEN /\ pret' = [health EXCEPT !.status = 200,
                            !.body = << <<"text", "OK">> >>]
            /\ UNCHANGED <<req, ws>>
       ELSE IF is_websocket_request(r)
       THEN IF ~connected
            THEN /\ pret' = [base EXCEPT
                                !.status = 500,
                                !.body = << <<"text",
                                    "WebSocket connection failed">> >>,
                                !.upstream = << <<wsT, "failed">> >>]
                 /\ UNCHANGED <<req, ws>>
            ELSE IF ~r.key
            THEN /\ pret' = [base EXCEPT
                                !.ok = FALSE,
                                !.err = "Missing Sec-WebSocket-Key header",
                                !.upstream = << <<wsT, "established">> >>]
                 /\ UNCHANGED <<req, ws>>
            ELSE /\ ~UpstreamHeld
                 /\ ws' = [NoWs EXCEPT !.st = "upgrading"]
                 /\ pret' = [base EXCEPT
                                !.status = 101,
                                !.upstream = << <<wsT, "established">> >>]
                 /\ UNCHANGED req
       ELSE IF ~https_check(url)
       THEN /\ pret' = [base EXCEPT
                           !.status = 500,
                           !.body = MaintenancePage(
                               "Invalid target URL scheme - must be HTTPS")]
            /\ UNCHANGED <<req, ws>>
       ELSE /\ ~req.active
            /\ req' = [active |-> TRUE, target |-> target, path |-> r.path]
            /\ pret' = [base EXCEPT !.upstream = << <<url, "issued">> >>]
            /\ UNCHANGED ws
    /\ UNCHANGED <<proxy, serving>>
    /\ UNCHANGED <<svars, starts, gvars>>

\* handle_request from the end of the upstream exchange: the three arms of
\* match tokio::time::timeout(10 s, self.client.request(..)).await
UpstreamReply ==
    /\ req.active
    /\ \E o \in Outcomes :
       LET base == [PRetOf("reply") EXCEPT
                       !.outcome = o.kind,
                       !.err = o.error,
                       !.target0 = req.target,
                       !.request = [NoRequest EXCEPT !.path = req.path]] IN
       IF o.kind = "response"
       THEN pret' = [base EXCEPT
                        !.status = o.status,
                        !.body = << <<"upstream", "body">> >>,
                        !.logged = log_access(proxy, req.path, o.status,
                                              req.target, <<>>)]
       ELSE IF o.kind = "error"
       THEN pret' = [base EXCEPT
                        !.status = 500,
                        !.body = MaintenancePage(o.error),
                        !.logged = log_access(proxy, req.path, 500,
                                              req.target, <<o.error>>)]
       ELSE pret' = [base EXCEPT
                        !.status = 504,
                        !.err = "Request timed out",
                        !.body = MaintenancePage("Request timed out"),
                        !.logged = log_access(proxy, req.path, 504,
                                              req.target,
                                              <<"Request timed out">>)]
    /\ req' = NoReq
    /\ UNCHANGED <<proxy, serving, ws>>
    /\ UNCHANGED <<svars, starts, gvars>>

----------------------------------------------------------------------------
(* ReverseProxy: WebSocket session *)

\* the session task: hyper::upgrade::on(req).await, then both loops are
\* spawned; if the upgrade fails the task returns and drops the upstream
WsUpgrade ==
    /\ ws.st = "upgrading"
    /\ \E upgraded \in BOOLEAN :
          ws' = IF upgraded
                THEN [NoWs EXCEPT !.st = "open", !.s2c = "run", !.c2s = "run"]
                ELSE [NoWs EXCEPT !.st = "closed"]
    /\ pret' = PRetOf("upgrade")
    /\ UNCHANGED <<proxy, serving, req>>
    /\ UNCHANGED <<svars, starts, gvars>>

\* an upstream-to-client loop that passes Ping frames on as they are
server_to_client_ping_through(msg, sendOk) ==
    IF msg.type = "end" THEN [sent |-> <<>>, next |-> "done"]
    ELSE IF msg.type = "Pong" THEN [sent |-> <<>>, next |-> "run"]
    ELSE IF msg.type = "Close" THEN [sent |-> <<>>, next |-> "done"]
    ELSE [sent |-> <<msg>>, next |-> IF sendOk THEN "run" ELSE "done"]

\* one turn of the server_to_client loop on the message read from the
\* upstream: what it hands to client_write.send, and whether it goes on
server_to_client(msg, sendOk) ==
    IF msg.type = "end" THEN [sent |-> <<>>, next |-> "done"]
    ELSE IF msg.type = "Ping"
    THEN [sent |-> <<Frame("Pong", msg.data)>>,
          next |-> IF sendOk THEN "run" ELSE "done"]
    ELSE IF msg.type = "Pong" THEN [sent |-> <<>>, next |-> "run"]
    ELSE IF msg.type = "Close" THEN [sent |-> <<>>, next |-> "done"]
    ELSE [sent |-> <<msg>>, next |-> IF sendOk THEN "run" ELSE "done"]

\* a client-to-upstream loop that passes Pong frames on
client_to_server_pong_forwarded(msg, sendOk) ==
    IF msg.type = "end" THEN [sent |-> <<>>, next |-> "done"]
    ELSE IF msg.type = "Ping"
    THEN [sent |-> <<Frame("Pong", msg.data)>>,
          next |-> IF sendOk THEN "run" ELSE "done"]
    ELSE IF msg.type = "Close" THEN [sent |-> <<>>, next |-> "done"]
    ELSE [sent |-> <<msg>>, next |-> IF sendOk THEN "run" ELSE "done"]

\* one turn of the client_to_server loop on the message read from the client
client_to_server(msg, sendOk) ==
    IF msg.type = "end" THEN [sent |-> <<>>, next |-> "done"]
    ELSE IF msg.type = "Ping"
    THEN [sent |-> <<Frame("Pong", msg.data)>>,
          next |-> IF sendOk THEN "run" ELSE "done"]
    ELSE IF msg.type = "Pong" THEN [sent |-> <<>>, next |-> "run"]
    ELSE IF msg.type = "Close" THEN [sent |-> <<>>, next |-> "done"]
    ELSE [sent |-> <<msg>>, next |-> IF sendOk THEN "run" ELSE "done"]

\* a turn of the upstream-to-client loop on the message msg
S2CTurn(msg, sendOk) ==
    /\ ws.st = "open"
    /\ ws.s2c = "run"
    /\ LET r == server_to_client(msg, sendOk) IN
       /\ ws' = [ws EXCEPT !.s2c = r.next,
                           !.after = IF ws.clientEnd # "no" THEN 1 ELSE 0]
       /\ pret' = [PRetOf("s2c") EXCEPT !.recv = msg, !.sent = r.sent]
    /\ UNCHANGED <<proxy, serving, req>>
    /\ UNCHANGED <<svars, starts>>

\* a turn of the client-to-upstream loop on the message msg
C2STurn(msg, sendOk) ==
    /\ ws.st = "open"
    /\ ws.c2s = "run"
    /\ LET r == client_to_server(msg, sendOk) IN
       /\ ws' = [ws EXCEPT !.c2s = r.next,
                           !.clientEnd = IF msg.type = "Close" THEN "close"
                                         ELSE IF msg.type = "end" THEN "eof"
                                         ELSE ws.clientEnd]
       /\ pret' = [PRetOf("c2s") EXCEPT !.recv = msg, !.sent = r.sent]
    /\ UNCHANGED <<proxy, serving, req>>
    /\ UNCHANGED <<svars, starts>>

S2CStep ==
    /\ \E msg \in Frames \cup {EndOfStream}, sendOk \in BOOLEAN :
          S2CTurn(msg, sendOk)
    /\ UNCHANGED gvars

C2SStep ==
    /\ \E msg \in Frames \cup {EndOfStream}, sendOk \in BOOLEAN :
          C2STurn(msg, sendOk)
    /\ UNCHANGED gvars

\* Message::Text and Message::Binary, the frames that carry data
IsData(f) == f.type \in {"Text", "Binary"}

\* the history of loop d after a turn that read msg and handed r.sent to
\* send(), which delivered it iff sendOk
Relayed(d, msg, sent, sendOk) ==
    [relay EXCEPT
        ![d].recv = IF IsData(msg) THEN @ \o <<msg>> ELSE @,
        ![d].sent = IF sendOk THEN @ \o SelectSeq(sent, IsData) ELSE @]

\* the same turns with the history of the session kept
S2CRelay ==
    /\ Len(relay["s2c"].recv) < MaxFrames
    /\ \E msg \in Frames \cup {EndOfStream}, sendOk \in BOOLEAN :
          /\ S2CTurn(msg, sendOk)
          /\ relay' = Relayed("s2c", msg,
                              server_to_client(msg, sendOk).sent, sendOk)
    /\ UNCHANGED <<boot, lvars>>

C2SRelay ==
    /\ Len(relay["c2s"].recv) < MaxFrames
    /\ \E msg \in Frames \cup {EndOfStream}, sendOk \in BOOLEAN :
          /\ C2STurn(msg, sendOk)
          /\ relay' = Relayed("c2s", msg,
                              client_to_server(msg, sendOk).sent, sendOk)
    /\ UNCHANGED <<boot, lvars>>

----------------------------------------------------------------------------
(* ReverseProxy: locks *)

\* lock.read().await / lock.write().await
Acq(l, mode) == [op |-> "acq", lock |-> l, mode |-> mode, last |-> FALSE]

\* the guard is dropped; last: the task may return here
Rel(l, last) == [op |-> "rel", lock |-> l, mode |-> "", last |-> last]

\* a set_debug_mode that takes the access logger while it holds debug_mode
Program_logger_under_debug(kind) ==
    IF kind = "request"
    THEN <<Acq("target_url", "r"), Rel("target_url", FALSE),
           Acq("access_logger", "w"),
           Acq("debug_mode", "r"), Rel("debug_mode", FALSE),
           Rel("access_logger", TRUE)>>
    ELSE IF kind = "set_target"
    THEN <<Acq("target_url", "w"), Rel("target_url", TRUE)>>
    ELSE IF kind = "set_debug_mode"
    THEN <<Acq("debug_mode", "w"),
           Acq("access_logger", "r"), Rel("access_logger", FALSE),
           Rel("debug_mode", TRUE)>>
    ELSE IF kind = "start"
    THEN <<Acq("server_handle", "r"), Rel("server_handle", TRUE),
           Acq("debug_mode", "r"), Rel("debug_mode", FALSE),
           Acq("debug_mode", "r"), Rel("debug_mode", FALSE),
           Acq("server_handle", "w"), Rel("server_handle", TRUE)>>
    ELSE IF kind = "stop"
    THEN <<Acq("server_handle", "w"), Rel("server_handle", TRUE)>>
    ELSE <<Acq("target_url", "r"), Rel("target_url", FALSE),
           Acq("server_handle", "r"), Rel("server_handle", TRUE)>>

\* the acquisitions and releases of each task, in program order.  Every
\* command also holds the outer RwLock<HttpProxy> in read mode from its first
\* line to its return; nothing takes that lock in write mode, so it is
\* granted at once and is not followed.
\*   request: handle_request reads target_url, then log_access holds the
\*     access logger in write mode while log_request reads debug_mode;
\*   start: is_running (returns there when the proxy runs), the two reads of
\*     debug_mode, the write of server_handle.
Program(kind) ==
    IF kind = "request"
    THEN <<Acq("target_url", "r"), Rel("target_url", FALSE),
           Acq("access_logger", "w"),
           Acq("debug_mode", "r"), Rel("debug_mode", FALSE),
           Rel("access_logger", TRUE)>>
    ELSE IF kind = "set_target"
    THEN <<Acq("target_url", "w"), Rel("target_url", TRUE)>>
    ELSE IF kind = "set_debug_mode"
    THEN <<Acq("debug_mode", "w"), Rel("debug_mode", TRUE)>>
    ELSE IF kind = "start"
    THEN <<Acq("server_handle", "r"), Rel("server_handle", TRUE),
           Acq("debug_mode", "r"), Rel("debug_mode", FALSE),
           Acq("debug_mode", "r"), Rel("debug_mode", FALSE),
           Acq("server_handle", "w"), Rel("server_handle", TRUE)>>
    ELSE IF kind = "stop"
    THEN <<Acq("server_handle", "w"), Rel("server_handle", TRUE)>>
    ELSE <<Acq("target_url", "r"), Rel("target_url", FALSE),
           Acq("server_handle", "r"), Rel("server_handle", TRUE)>>

\* the step task t is at
OpOf(t) == Program(ltask[t].kind)[ltask[t].pc]

\* the semaphore under the RwLock has the permits: a reader needs no writer,
\* a writer needs the lock free
CanTake(l, mode) ==
    /\ locks[l].writer = "none"
    /\ mode = "w" => locks[l].readers = {}

Taken(l, t, mode) ==
    IF mode = "w" THEN [locks[l] EXCEPT !.writer = t]
    ELSE [locks[l] EXCEPT !.readers = @ \cup {t}]

Holds(t, l) == locks[l].writer = t \/ t \in locks[l].readers

\* the task has been invoked and has not returned
Invoked(t) == ltask[t].kind # "idle"

\* read().await / write().await by a task that runs program kind: the guard
\* is returned at once when the permits are there and nobody waits;
\* otherwise the task joins the queue
Acquiring(t, kind) ==
    LET o == Program(kind)[ltask[t].pc]
        l == o.lock
        m == o.mode IN
    /\ o.op = "acq"
    /\ IF CanTake(l, m) /\ locks[l].queue = <<>>
       THEN /\ locks' = [locks EXCEPT ![l] = Taken(l, t, m)]
            /\ ltask' = [ltask EXCEPT ![t].kind = kind, ![t].pc = @ + 1]
       ELSE /\ locks' = [locks EXCEPT ![l].queue = Append(@, <<t, m>>)]
            /\ ltask' = [ltask EXCEPT ![t].kind = kind, ![t].waiting = TRUE]

\* a request arrives, a command is invoked: the task runs up to its first
\* acquisition
Invoke(t) ==
    /\ ~Invoked(t)
    /\ \E kind \in KindsOf(t) : Acquiring(t, kind)

Acquire(t) ==
    /\ Invoked(t) /\ ~ltask[t].waiting
    /\ Acquiring(t, ltask[t].kind)

\* the waiter at the head of the queue gets the permits it waits for
Grant(t) ==
    /\ Invoked(t) /\ ltask[t].waiting
    /\ LET l == OpOf(t).lock
           m == OpOf(t).mode IN
       /\ Head(locks[l].queue) = <<t, m>>
       /\ CanTake(l, m)
       /\ locks' = [locks EXCEPT
                       ![l] = [Taken(l, t, m) EXCEPT !.queue = Tail(@)]]
       /\ ltask' = [ltask EXCEPT ![t].pc = @ + 1, ![t].waiting = FALSE]

\* the guard goes out of scope; at the end of the program, or where the
\* task may return early, the task is over
Release(t) ==
    /\ Invoked(t) /\ ~ltask[t].waiting
    /\ OpOf(t).op = "rel"
    /\ LET l == OpOf(t).lock IN
       locks' = [locks EXCEPT
                    ![l].writer = IF @ = t THEN "none" ELSE @,
                    ![l].readers = @ \ {t}]
    /\ \E returns \in BOOLEAN :
          /\ returns => OpOf(t).last
          /\ ltask[t].pc = Len(Program(ltask[t].kind)) => returns
          /\ ltask' = [ltask EXCEPT
                          ![t] = IF returns THEN IdleTask
                                 ELSE [@ EXCEPT !.pc = @ + 1]]

\* a step of a task that has been invoked
Advance(t) == Acquire(t) \/ Grant(t) \/ Release(t)

LockStep(t) ==
    /\ Invoke(t) \/ Advance(t)
    /\ pret' = PRetNone
    /\ UNCHANGED <<proxy, serving, req, ws, starts, relay, boot>>
    /\ UNCHANGED svars

----------------------------------------------------------------------------
(* Specifications *)

\* the application after startup has run the service check, seen from the
\* supervisor: the proxy takes no part
Init ==
    /\ svc \in Services
    /\ platform \in Platforms
    /\ InitSupervisor
    /\ InitProxy

Next == Env \/ Status \/ Reconcile \/ Start \/ Stop

Spec == Init /\ [][Next]_vars

\* two start commands of one service invoked concurrently, while the
\* processes they spawn do not answer yet and may exit at any time
NextRace == Start \/ Switch \/ ProcExit

SpecRace == Init /\ [][NextRace]_vars

\* status, reconcile and start over PID files that may hold content that is
\* not a number, while the processes that start spawns come to answer, or
\* exit
NextCorrupt ==
    FileCorrupt \/ Status \/ Reconcile \/ Start \/ ProcServe \/ ProcExit

SpecCorrupt == Init /\ [][NextCorrupt]_vars

\* application startup from a state where no service runs: the service
\* step, then the construction of the proxy, for every set of candidate
\* ports that other programs hold
InitStartup ==
    /\ svc \in Services
    /\ platform = "macos"
    /\ InitSupervisor
    /\ InitProxy

\* start_services_if_needed up to its first start call, for the service the
\* behaviour follows; the other service is summed up by whether it answers
\* the status check (otherUp) and whether its start succeeds (otherOk).
\* check_server_status is tried up to three times; cfg is the
\* configuration read of the attempt that decides (nothing else changes
\* between the attempts).
BootCheck ==
    /\ boot.pc = "services"
    /\ call.op = "idle"
    /\ \E cfg \in Configs, otherUp \in BOOLEAN, otherOk \in BOOLEAN :
       LET st      == check_status(pidFile, "server_status", svc, cfg)
           known   == ~st.err
           up      == known /\ st.service_responds
           apiDown == IF svc = "api" THEN ~up ELSE ~(known /\ otherUp)
           buiDown == IF svc = "bui" THEN ~up ELSE ~(known /\ otherUp) IN
       IF ~apiDown /\ ~buiDown
       THEN boot' = [pc |-> "proxy", services |-> "ok"]
       ELSE IF svc = "api"
       THEN IF apiDown
            THEN boot' = [boot EXCEPT !.pc = "starting"]
            ELSE boot' = [pc |-> "proxy",
                          services |-> IF otherOk THEN "ok" ELSE "err"]
       ELSE IF apiDown /\ ~otherOk
            THEN boot' = [pc |-> "proxy", services |-> "err"]
            ELSE IF buiDown
            THEN boot' = [boot EXCEPT !.pc = "starting"]
            ELSE boot' = [pc |-> "proxy", services |-> "ok"]
    /\ ret' = RetNone
    /\ pret' = PRetNone
    /\ UNCHANGED <<svc, platform, procs, listener, listenTls, pidFile, call,
                   prev, other>>
    /\ UNCHANGED <<proxy, serving, req, ws, starts, relay, lvars>>

\* start_services_if_needed from the return of start_api / start_bui: an
\* Err or success = false ends it with an Err; after the API the BUI is
\* started if it was down (buiDown, otherOk)
BootStarted ==
    /\ boot.pc = "starting"
    /\ call.op = "idle"
    /\ ret.op = "start"
    /\ \E buiDown \in BOOLEAN, otherOk \in BOOLEAN :
          boot' = [pc |-> "proxy",
                   services |->
                      IF ret.err \/ ~ret.success THEN "err"
                      ELSE IF svc = "api" /\ buiDown /\ ~otherOk THEN "err"
                      ELSE "ok"]
    /\ ret' = RetNone
    /\ pret' = PRetNone
    /\ UNCHANGED <<svc, platform, procs, listener, listenTls, pidFile, call,
                   prev, other>>
    /\ UNCHANGED <<proxy, serving, req, ws, starts, relay, lvars>>

\* the start call of the service step, begun once, and the spawned process
\* coming to answer while the call polls
BootStart ==
    \/ boot.pc = "starting" /\ ret.op # "start" /\ Start
    \/ boot.pc = "starting" /\ call.op = "start" /\ ProcServe

NextStartup == BootCheck \/ BootStart \/ BootStarted \/ StartProxy

SpecStartup == InitStartup /\ [][NextStartup]_vars

\* the application once startup has built the proxy with all candidate ports
\* free (and started it if the API does not use TLS), seen from the proxy
InitP ==
    /\ svc = "api"
    /\ platform = "macos"
    /\ InitSupervisor
    /\ \E dbg \in BOOLEAN, use_tls \in BOOLEAN :
       LET n == HttpProxy_new({}, dbg)
           r == start(n.proxy, {}, TRUE) IN
       /\ proxy = IF use_tls THEN n.proxy ELSE r.proxy
       /\ serving = IF use_tls THEN {} ELSE r.serving
    /\ req = NoReq
    /\ ws = NoWs
    /\ pret = PRetNone
    /\ starts = [c \in Callers |-> NoStart]
    /\ InitGhost
    /\ boot = Booted

NextProxy ==
    \/ ProxyStart \/ ProxyStop \/ TaskExit
    \/ SetTarget \/ SetDebugMode \/ GetInfo
    \/ HandleRequest \/ UpstreamReply
    \/ WsUpgrade \/ S2CStep \/ C2SStep

SpecProxy == InitP /\ [][NextProxy]_vars

\* the same application with its start and stop commands invoked
\* concurrently
NextProxyRace ==
    \/ \E c \in Callers : StartCheck(c) \/ StartBind(c) \/ StartStore(c)
    \/ ProxyStop \/ TaskExit
    \/ SetDebugMode \/ GetInfo

SpecProxyRace == InitP /\ [][NextProxyRace]_vars

\* a WebSocket session from the moment its two forwarding loops start, with
\* the frames of either side arriving in any order
InitWs ==
    /\ svc = "api"
    /\ platform = "macos"
    /\ InitSupervisor
    /\ \E dbg \in BOOLEAN :
          LET r == start(HttpProxy_new({}, dbg).proxy, {}, TRUE) IN
          /\ proxy = r.proxy
          /\ serving = r.serving
    /\ req = NoReq
    /\ ws = [NoWs EXCEPT !.st = "open", !.s2c = "run", !.c2s = "run"]
    /\ pret = PRetNone
    /\ starts = [c \in Callers |-> NoStart]
    /\ InitGhost
    /\ boot = Booted

NextWs == S2CRelay \/ C2SRelay

SpecWs == InitWs /\ [][NextWs]_vars

\* the running proxy seen from its locks
InitLocks ==
    /\ InitWs
    /\ ~proxy.debug_mode

NextLocks == \E t \in LockTasks : LockStep(t)

SpecLocks == InitLocks /\ [][NextLocks]_vars

\* the async runtime polls every invoked task that can go on; who invokes a
\* command, and when, is free
SpecLocksFair ==
    SpecLocks /\ \A t \in LockTasks : WF_vars(Advance(t) /\ LockStep(t))

----------------------------------------------------------------------------
(* Properties of the supervisor.  ret describes a call in the state in     *)
(* which it returns, so procs, listener and pidFile in a state with        *)
(* ret.op # "none" are those the caller finds at the return.               *)

\* the PID file of the module that served the call, at the return
FileNow == get_pid(pidFile, ret.module, svc)

\* the processes that carry the name of the service binary
Matching == find_all_processes(BinName(svc))

C2_ReconcileRemovesIffStale ==
    ret.op = "reconcile" =>
        LET stale == ret.preFile # None /\ ~check_process_exists(ret.preFile) IN
        /\ (ret.preFile # None /\ FileNow = None) <=> stale
        /\ (ret.preFile # None /\ ~stale) => FileNow = ret.preFile

C2_Witness ==
    /\ ret.op = "reconcile"
    /\ ret.preFile # None /\ ~check_process_exists(ret.preFile)
    /\ FileNow = None

C2_WitnessKept ==
    /\ ret.op = "reconcile"
    /\ ret.preFile # None /\ check_process_exists(ret.preFile)
    /\ listener = None
    /\ FileNow = ret.preFile

\* C3: reconcile writes a PID file exactly when the health endpoint of the
\* service responds and no PID file exists before the call.
C3_ReconcileWritesIffHealthyNoFile ==
    ret.op = "reconcile" =>
        ((ret.preFile = None /\ FileNow # None)
            <=> (listener # None /\ ret.preFile = None))

\* C4: stop signals every running process that carries the name of the
\* service binary, named by the PID file or not.
C4_StopSignalsAllMatching ==
    (ret.op = "stop" /\ ~ret.err) => ret.matched \subseteq ret.signalled

\* C5: once stop has signalled a process, the PID file is absent when stop
\* returns.
C5_StopRemovesPidFile ==
    (ret.op = "stop" /\ ret.signalled # {}) => FileNow = None

\* C6: stop returns true only if no process with the name of the service
\* binary is running when it returns.
C6_StopTrueOnlyIfNoneRunning ==
    (ret.op = "stop" /\ ~ret.err /\ ret.success) => Matching = {}

\* C7: after a spawn, start checks the status once per turn of the polling
\* loop; it returns success at the first check that finds the service
\* responding, and failure with the spawned PID after exactly 10 checks that
\* did not.
C7_StartPollsTenTimes ==
    /\ (call.op = "start" /\ call.pc = "probe")
          => (call.attempt < 10 /\ ~call.flag /\ call.pid # None)
    /\ (ret.op = "start" /\ ret.spawned = 1)
          => /\ ret.pid = ret.spawnPid /\ ret.spawnPid # None
             /\ ret.attempts \in 1..10
             /\ ret.success <=> ret.service_responds
             /\ ~ret.success => ret.attempts = 10

C7_Witness ==
    /\ ret.op = "start" /\ ret.spawned = 1
    /\ ~ret.success /\ ret.attempts = 10 /\ ret.pid = ret.spawnPid

C7_WitnessSuccess ==
    /\ ret.op = "start" /\ ret.spawned = 1
    /\ ret.success /\ ret.attempts = 3

\* C8: a start that does not find the binary returns success = false,
\* pid = None, requires_settings = true, and has not reconciled, spawned or
\* changed the PID file.
C8_StartNotFound ==
    (ret.op = "start" /\ ~ret.found)
        => /\ ~ret.success /\ ret.pid = None /\ ret.requires_settings
           /\ ~ret.reconciled /\ ret.spawned = 0 /\ FileNow = ret.preFile

\* C9: with no PID file, status returns pid = None and all flags false and
\* has made no process probe and no HTTP request, whatever is running.
C9_StatusNoPidFile ==
    (ret.op = "status" /\ FileNow = None)
        => /\ ~ret.err /\ ret.pid = None
           /\ ~ret.pid_exists /\ ~ret.process_responds /\ ~ret.service_responds
           /\ ret.procProbes = 0 /\ ret.httpReqs = 0

C9_Witness ==
    /\ ret.op = "status" /\ FileNow = None
    /\ listener # None /\ procs[listener] = BinName(svc)
    /\ ret.pid = None /\ ~ret.service_responds

\* C10: when the PID file names a process that has terminated, status returns
\* pid_exists = false and service_responds = false without an HTTP request; a
\* following reconcile that still finds it so removes the PID file, and status
\* then gives the no-PID-file result.
C10_StaleStatusThenReconcile ==
    /\ (ret.op = "status" /\ FileNow # None /\ ~check_process_exists(FileNow))
          => /\ ~ret.err /\ ret.pid = FileNow
             /\ ~ret.pid_exists /\ ~ret.process_responds /\ ~ret.service_responds
             /\ ret.httpReqs = 0
             /\ PrevOf(ret) = <<"stale", 0>>
    /\ (/\ ret.op = "reconcile" /\ ret.before[1] = "stale"
        /\ ret.preFile # None /\ ~check_process_exists(ret.preFile))
          => /\ FileNow = None
             /\ \A cfg \in Configs :
                   check_status(pidFile, ret.module, svc, cfg) = NoStatus

C10_Witness ==
    /\ ret.op = "reconcile" /\ ret.before[1] = "stale"
    /\ ret.preFile # None /\ ~check_process_exists(ret.preFile)
    /\ FileNow = None
    /\ listener # None

\* C11: every status record returned by a status check satisfies
\* service_responds => process_responds => pid_exists => pid is present.
C11_StatusLevelsNested ==
    (ret.op = "status" /\ ~ret.err)
        => /\ ret.service_responds => ret.process_responds
           /\ ret.process_responds => ret.pid_exists
           /\ ret.pid_exists => ret.pid # None

C11_Witness ==
    /\ ret.op = "status" /\ ~ret.err
    /\ ret.service_responds /\ ret.process_responds
    /\ ret.pid_exists /\ ret.pid # None

----------------------------------------------------------------------------
(* Properties of the reverse proxy.  pret describes the step just taken,   *)
(* so proxy, serving, req and ws in a state with pret.op # "none" are      *)
(* those the step leaves.                                                  *)

\* the request of the step just taken is a plain one: not the health path,
\* no WebSocket upgrade
PlainRequest ==
    /\ pret.op = "request"
    /\ pret.request.path # "/_health"
    /\ ~pret.request.upgrade

\* C12: set_target with a URL that does not parse, or whose scheme is not
\* https, returns an error and leaves the target as it was: info reports, and
\* later requests read, the target in effect before the call.
C12_RejectedTargetKeepsTarget ==
    (/\ pret.op = "set_target"
     /\ (~UrlParse(pret.input).ok \/ UrlParse(pret.input).scheme # "https"))
        => /\ ~pret.ok
           /\ proxy.target_url = pret.target0
           /\ get_proxy_info(proxy).target = pret.target0

C12_Witness ==
    /\ pret.op = "set_target"
    /\ pret.input = <<"http", "://", "localhost">>
    /\ ~pret.ok
    /\ pret.target0 = <<"https", "://", "localhost">>
    /\ proxy.target_url = <<"https", "://", "localhost">>

C12_WitnessUnparsable ==
    /\ pret.op = "set_target"
    /\ pret.input = <<"localhost">>
    /\ ~pret.ok
    /\ proxy.target_url = DEFAULT_TARGET

\* C13: every upstream connection the proxy opens, for a plain request or a
\* WebSocket upgrade, uses https:// or wss://.
C13_UpstreamAlwaysTls ==
    \A i \in DOMAIN pret.upstream :
        pret.upstream[i][2] # "failed"
            => pret.upstream[i][1][1] \in {"https", "wss"}

\* C14: a plain request handled while the target does not begin with
\* https:// is answered 500 and issues no upstream request.
C14_NonHttpsTargetRejected ==
    (PlainRequest /\ ~StartsWith(proxy.target_url, <<"https", "://">>))
        => /\ pret.ok
           /\ pret.status = 500
           /\ pret.upstream = <<>>

C14_Witness ==
    /\ PlainRequest
    /\ proxy.target_url = <<"HTTPS", "://", "localhost">>
    /\ pret.status = 500
    /\ pret.upstream = <<>>

\* C15: construction takes the first free port of the candidate list, and
\* fails with the AddrInUse error exactly when no candidate is free.
C15_FirstFreePort ==
    pret.op = "new" =>
        LET free == PortSet \ pret.occupied IN
        /\ pret.ok <=> free # {}
        /\ pret.ok => /\ proxy.st = "built"
                      /\ proxy.port \in free
                      /\ \A q \in free : proxy.port <= q
        /\ ~pret.ok => /\ proxy.st = "failed"
                       /\ pret.err = "AddrInUse: No available ports in range"

C15_Witness ==
    /\ pret.op = "new" /\ pret.ok
    /\ pret.occupied = {45000, 45001, 45002, 45007}
    /\ proxy.port = 45003

C15_WitnessNoPort ==
    /\ pret.op = "new" /\ ~pret.ok
    /\ pret.occupied = PortSet
    /\ proxy.st = "failed"

\* C16: start while the proxy is running returns Ok, spawns no serving task
\* and keeps the stored handle; after any start that returns Ok exactly one
\* serving task exists, the one the handle names (provided the task the
\* handle named when the call began had not ended by itself).
C16_StartIdempotent ==
    /\ Cardinality(serving) <= 1
    /\ pret.op = "start" =>
          /\ pret.handle0 # None
                => /\ pret.ok
                   /\ pret.spawned = {}
                   /\ proxy.server_handle = pret.handle0
                   /\ serving = pret.serving0
          /\ (pret.ok /\ pret.serving0 = {pret.handle0} \ {None})
                => /\ Cardinality(serving) = 1
                   /\ serving = {proxy.server_handle}

C16_Witness ==
    /\ pret.op = "start" /\ pret.ok
    /\ pret.handle0 # None
    /\ pret.spawned = {}
    /\ serving = {pret.handle0}

\* C17: stop returns Ok, aborts the serving task if there is one and leaves
\* the handle empty; a stop directly after a stop changes nothing.
C17_StopIdempotent ==
    pret.op = "stop" =>
        /\ pret.ok
        /\ proxy.server_handle = None
        /\ ~is_running(proxy)
        /\ get_proxy_info(proxy).is_running = FALSE
        /\ pret.handle0 # None
              => /\ pret.aborted = {pret.handle0} \cap pret.serving0
                 /\ pret.handle0 \notin serving
        /\ serving = {}
        /\ pret.repeat
              => /\ pret.aborted = {}
                 /\ proxy.server_handle = pret.handle0
                 /\ serving = pret.serving0

C17_Witness ==
    /\ pret.op = "stop" /\ pret.ok
    /\ pret.handle0 # None
    /\ pret.aborted = {pret.handle0}
    /\ serving = {}

C17_WitnessTwice ==
    /\ pret.op = "stop" /\ pret.ok /\ pret.repeat
    /\ pret.aborted = {}
    /\ proxy.server_handle = None

\* C18: in the upstream-to-client loop a Ping read from the upstream makes
\* the loop send exactly one Pong with the same payload to the client, and
\* the loop never sends a Ping to the client.
C18_PingAnsweredWithPong ==
    pret.op = "s2c" =>
        /\ pret.recv.type = "Ping"
              => pret.sent = <<Frame("Pong", pret.recv.data)>>
        /\ \A i \in DOMAIN pret.sent : pret.sent[i].type # "Ping"

C18_Witness ==
    /\ pret.op = "s2c"
    /\ pret.recv = Frame("Ping", "b")
    /\ pret.sent = <<Frame("Pong", "b")>>

\* C19: once the client side of a session has closed (Close frame or end of
\* the client stream) and the upstream-to-client loop has taken one more
\* turn, the proxy no longer holds its connection to the upstream.
C19_ClientCloseEndsUpstream ==
    (ws.clientEnd # "no" /\ ws.after >= 1) => ~UpstreamHeld

\* C20: when the upstream request of a forwarded plain request fails with an
\* error, the response is 500 with the maintenance page carrying the error
\* text, and exactly one access-log entry, with status 500 and the same error
\* text, is emitted, with debug mode on or off.
C20_UpstreamErrorLoggedOnce ==
    (pret.op = "reply" /\ pret.outcome = "error")
        => /\ pret.ok
           /\ pret.status = 500
           /\ \E i \in DOMAIN pret.body :
                 pret.body[i] = ErrorParagraph(pret.err)
           /\ Len(pret.logged) = 1
           /\ pret.logged[1].status = 500
           /\ pret.logged[1].error = <<pret.err>>

C20_Witness ==
    /\ pret.op = "reply" /\ pret.outcome = "error"
    /\ ~proxy.debug_mode
    /\ pret.err = "connection refused"
    /\ pret.status = 500
    /\ Len(pret.logged) = 1

C21_WitnessDebug ==
    /\ pret.op = "reply"
    /\ proxy.debug_mode
    /\ pret.outcome = "response"
    /\ pret.status = 200
    /\ Len(pret.logged) = 1

\* C22: a request for the health path /_health is answered 200 with body OK
\* without reading the target URL, contacting the upstream or writing an
\* access-log entry, whatever the target, the debug mode and the request's
\* headers (a WebSocket Upgrade header included); it opens no upstream
\* exchange and no WebSocket session.
C22_HealthAnsweredLocally ==
    (pret.op = "request" /\ pret.request.path = "/_health") =>
        /\ pret.ok
        /\ pret.status = 200
        /\ pret.body = << <<"text", "OK">> >>
        /\ pret.target0 = <<>>
        /\ pret.upstream = <<>>
        /\ pret.logged = <<>>

\* a health request with an Upgrade header, debug mode on and a target the
\* request-time check would reject
C22_Witness ==
    /\ pret.op = "request"
    /\ pret.request.path = "/_health"
    /\ pret.request.upgrade
    /\ proxy.debug_mode
    /\ ~https_check(proxy.target_url)
    /\ pret.status = 200

\* C23: a WebSocket upgrade request that lacks the Sec-WebSocket-Key header,
\* or whose upstream handshake fails, is answered with an HTTP response of
\* status at least 400: the handler returns no error to the connection, and
\* the serving task goes on serving.
C23_WsProtocolErrorAnswered ==
    (/\ pret.op = "request"
     /\ ~is_health_request(pret.request)
     /\ is_websocket_request(pret.request)
     /\ \/ ~pret.request.key
        \/ pret.upstream # <<>> /\ pret.upstream[1][2] = "failed")
    => /\ pret.ok
       /\ pret.status >= 400
       /\ serving # {}

\* C24: when no port of the candidate list is free, only the proxy fails to
\* start: the construction reports that no port is available and application
\* startup goes on without the proxy instead of aborting.
C24_NoPortStartupContinues ==
    (pret.op = "new" /\ pret.occupied = PortSet) =>
        /\ ~pret.ok
        /\ proxy.st = "failed"
        /\ ~pret.panicked

\* C25: start never spawns a process, nor overwrites the PID file, while the
\* PID file names a process of the service that is still alive (one that is
\* alive but does not answer after a failed start, for instance); so every
\* live process that start spawned stays the one the PID file names.
C25_NoSpawnOverLiveProcess ==
    [][(call.op = "start" /\ call.pc = "spawn" /\ call'.spawned = 1) =>
          LET q == get_pid(pidFile, OwnModule(svc), svc) IN
          ~(q # None /\ procs[q] = BinName(svc))]_vars

\* the two start calls have each spawned a process, the later one has just
\* returned, and both processes are alive
BothSpawned ==
    /\ ret.op = "start" /\ ret.spawned = 1
    /\ other.op = "start" /\ other.spawned = 1
    /\ ret.spawnPid # other.pid
    /\ procs[ret.spawnPid] = BinName(svc)
    /\ procs[other.pid] = BinName(svc)

\* C26: the supervisor does not serialise concurrent start calls of one
\* service: while one start call is in flight a second one can always begin,
\* and when both have spawned a process the PID file names at most one of
\* the two, so one live process is left that no PID file names.
C26_StartsNotSerialised ==
    /\ (call.op = "idle" /\ other.op = "start") => ENABLED StartBegin
    /\ BothSpawned =>
          \E p \in {ret.spawnPid, other.pid} :
             get_pid(pidFile, OwnModule(svc), svc) # p

\* both calls found the service not responding, both spawned, and the PID
\* file names the process of one of them only
C26_Witness ==
    /\ BothSpawned
    /\ ~ret.preResp /\ ~other.preResp
    /\ get_pid(pidFile, OwnModule(svc), svc) \in {ret.spawnPid, other.pid}

\* C27: for any interleaving of concurrent start() and stop() calls of the
\* proxy at most one serving task is alive, a stop() leaves no serving task
\* running, and once no start() is in flight every alive serving task is the
\* one the stored handle names.
C27_TasksReferenced ==
    /\ Cardinality(serving) <= 1
    /\ pret.op = "stop" => serving = {}
    /\ (\A c \in Callers : starts[c].pc = "idle")
          => serving \subseteq {proxy.server_handle}

\* C28: info().is_running is true if and only if a serving task is alive,
\* after any sequence of start(), stop() and exits of the serving task.
C28_RunningIffTaskAlive ==
    proxy.st = "built" =>
        (get_proxy_info(proxy).is_running <=> serving # {})

\* C29: every request other than a health request that the proxy answers
\* with a status of at least 400 (a synthesized 500 or 504, the rejection of
\* a target that is not HTTPS, a failed WebSocket connect, a relayed upstream
\* error status) leaves exactly one access-log entry, with debug mode on or
\* off.
C29_ErrorResponseLoggedOnce ==
    (/\ pret.op \in {"request", "reply"}
     /\ pret.ok
     /\ ~is_health_request(pret.request)
     /\ pret.status >= 400)
    => Len(pret.logged) = 1

\* C30: in every reachable state the stored target passes the request-time
\* HTTPS check: every URL that set_proxy_target accepts begins with the
\* literal prefix "https://", so a plain request is forwarded and never
\* rejected for its scheme.
C30_StoredTargetPassesHttpsCheck ==
    /\ proxy.st = "built" => https_check(proxy.target_url)
    /\ (pret.op = "set_target" /\ pret.ok) => https_check(pret.input)
    /\ (pret.op = "request" /\ PlainRequest /\ pret.ok)
          => pret.upstream # <<>>

\* C31: for every service the level-3 health check asks the configured
\* scheme first and, when that gets no 2xx answer, the opposite scheme on the
\* same host and port: a status check that reaches level 3 reports the
\* service responding if and only if the endpoint answers 2xx on one of the
\* two schemes, after one request if it reports so at once and after two if
\* neither scheme answers.
C31_FallbackSchemeProbed ==
    (ret.op = "status" /\ ret.pid_exists /\ ~ret.err) =>
        /\ ret.service_responds <=> (HttpGet(TRUE) \/ HttpGet(FALSE))
        /\ ret.httpReqs \in {1, 2}
        /\ ~ret.service_responds => ret.httpReqs = 2

\* C32: in every state and for every configuration check_api_status and the
\* API entry of check_server_status agree on pid, pid_exists and the two
\* responds flags.
C32_StatusImplementationsAgree ==
    svc = "api" =>
        \A cfg \in Configs :
           LET a == check_status(pidFile, "api_status", "api", cfg)
               b == check_status(pidFile, "server_status", "api", cfg) IN
           /\ a.pid = b.pid
           /\ a.pid_exists = b.pid_exists
           /\ a.process_responds = b.process_responds
           /\ a.service_responds = b.service_responds

\* C33: stop returns after a bounded number of waits, and every process it
\* targeted that is still alive after the wait that follows the graceful
\* termination request has been sent a forced kill when stop returns.
C33_StopEscalatesToKill ==
    /\ call.op = "stop" => call.attempt < max_attempts
    /\ ret.op = "stop" =>
          /\ ret.attempts <= max_attempts
          /\ ret.unforced = {}

\* the Text and Binary frames a loop has delivered
DataSent(d) == relay[d].sent

IsPrefix(u, v) == Len(u) <= Len(v) /\ u = SubSeq(v, 1, Len(u))

\* the forwarding loop d is still running
Running(d) ==
    ws.st = "open" /\ (IF d = "s2c" THEN ws.s2c = "run" ELSE ws.c2s = "run")

\* C34: in each forwarding direction the Text and Binary frames delivered to
\* the receiving side are a prefix of those read from the sending side, in
\* the same order, none twice and none left out (while the loop runs they
\* are all of them, and a frame is missing at the end only if its send
\* failed and ended the loop); a Pong read is never passed on, and the only
\* Pong delivered answers a Ping; a Close read ends the loop with nothing
\* sent.
C34_FramesRelayedInOrder ==
    /\ \A d \in {"s2c", "c2s"} :
          /\ IsPrefix(DataSent(d), relay[d].recv)
          /\ Running(d) => DataSent(d) = relay[d].recv
          /\ Len(relay[d].recv) - Len(DataSent(d)) <= 1
    /\ pret.op \in {"s2c", "c2s"} =>
          /\ pret.recv.type = "Pong" => pret.sent = <<>>
          /\ pret.recv.type = "Close"
                => /\ pret.sent = <<>>
                   /\ ~Running(pret.op)
          /\ IsData(pret.recv) => pret.sent = <<pret.recv>>
          /\ \A i \in DOMAIN pret.sent :
                pret.sent[i].type = "Pong" => pret.recv.type = "Ping"

\* two different frames went from the client to the upstream, and two from
\* the upstream to the client, each pair in the order it was read
C34_Witness ==
    /\ relay["c2s"].recv = <<Frame("Text", "a"), Frame("Binary", "b")>>
    /\ DataSent("c2s") = relay["c2s"].recv
    /\ relay["s2c"].recv = <<Frame("Binary", "b"), Frame("Text", "a")>>
    /\ DataSent("s2c") = relay["s2c"].recv

\* C35: a reconcile that finds the PID file naming an existing process whose
\* health endpoint does not respond changes nothing: the PID files stay as
\* they are, no process is spawned, signalled or restarted, and no start or
\* stop call is begun.
C35_UnresponsiveLeftAlone ==
    [][(/\ ret'.op = "reconcile"
        /\ Reconcile
        /\ ret'.preFile # None
        /\ procs[ret'.preFile] # "none"
        /\ ~ret'.service_responds) =>
          /\ pidFile' = pidFile
          /\ procs' = procs
          /\ listener' = listener
          /\ call' = call]_vars

C35_Witness ==
    /\ ret.op = "reconcile" /\ ~ret.err
    /\ ret.preFile # None /\ procs[ret.preFile] = BinName(svc)
    /\ ret.pid_exists /\ ~ret.service_responds
    /\ listener = None
    /\ FileNow = ret.preFile

\* C36: a start call that has spawned a process and written its PID finds
\* that PID in the PID file at each of its health probes and when it returns;
\* a start call that has spawned a process goes on to probe and returns a
\* result, not an error, whether the PID was written or not.
C36_PidSavedBeforeFirstProbe ==
    /\ (call.op = "start" /\ call.pc = "probe") =>
          /\ call.spawned = 1 /\ call.pid # None
          /\ call.saved => get_pid(pidFile, OwnModule(svc), svc) = call.pid
    /\ (ret.op = "start" /\ ret.spawned = 1) =>
          /\ ret.attempts >= 1 /\ ~ret.err
          /\ ret.saved => FileNow = ret.spawnPid

\* a start call is about to probe with the PID it wrote in the PID file
C36_Witness ==
    /\ call.op = "start" /\ call.pc = "probe" /\ call.attempt = 0
    /\ call.saved
    /\ get_pid(pidFile, OwnModule(svc), svc) = call.pid
    /\ procs[call.pid] = BinName(svc)

\* a start call whose PID-file write failed has polled to the end
C36_WitnessWriteError ==
    /\ ret.op = "start" /\ ret.spawned = 1 /\ ~ret.saved
    /\ ret.attempts = max_attempts
    /\ FileNow # ret.spawnPid

\* the PID file that module m reads holds content that is not a number
Corrupted(m) == pidFile[get_pid_file_path(m, svc)] = Unparsable

\* C37: a status or reconcile call that finds content in the PID file that
\* does not parse as an integer returns the all-false result with no PID and
\* no error, as for an absent file, without probing anything; a start call
\* that finds such content returns no error and, when the binary is there,
\* goes on to spawn.
C37_UnparsablePidIsNoPid ==
    [][(/\ call.op = "idle"
        /\ \/ ret'.op \in {"status", "reconcile", "start"} /\ Corrupted(ret'.module)
           \/ call'.op = "start" /\ Corrupted(OwnModule(svc))) =>
          /\ ret'.op \in {"status", "reconcile"} =>
                /\ ~ret'.err
                /\ ret'.pid = None /\ ~ret'.pid_exists
                /\ ~ret'.process_responds /\ ~ret'.service_responds
                /\ ret'.procProbes = 0 /\ ret'.httpReqs = 0
          /\ ret'.op = "reconcile" => pidFile' = pidFile
          /\ ret'.op = "start" => ~ret'.err /\ ~ret'.found
          /\ call'.op = "start" => call'.pc = "spawn"]_vars

\* a status call has returned over a PID file whose content is not a number,
\* while a process of the service is alive and answering
C37_Witness ==
    /\ ret.op = "status" /\ Corrupted(ret.module)
    /\ ret.pid = None /\ ~ret.err /\ ~ret.service_responds
    /\ \E p \in Pids : procs[p] = BinName(svc)

\* a start call has found such content and has spawned
C37_WitnessStart ==
    /\ call.op = "start" /\ call.pc = "probe"
    /\ ~call.saved /\ Corrupted(OwnModule(svc))

\* C38: with debug mode off, the end of an upstream exchange leaves an
\* access-log entry exactly when the response status is not 2xx (a 3xx
\* included) or the exchange carries an error; with debug mode on it always
\* leaves one.
C38_NonSuccessLogged ==
    pret.op = "reply" =>
        LET success == pret.status \in 200..299
            failed  == pret.outcome # "response" IN
        /\ ~proxy.debug_mode => (Len(pret.logged) >= 1 <=> (~success \/ failed))
        /\ proxy.debug_mode => Len(pret.logged) >= 1

\* C39 (as stated): the service step has completed when the proxy is
\* constructed, startup always ends with the proxy constructed, and its
\* listener runs if and only if the API configuration has use_tls = false.
C39_ProxyAlwaysConstructed ==
    /\ proxy.st # "unbuilt" => (boot.services # "none" /\ call.op = "idle")
    /\ boot.pc = "done" =>
          /\ proxy.st = "built"
          /\ serving # {} <=> ~pret.use_tls

\* C39 (amended): the service step has completed, with success or with an
\* error, and no start call is in flight when the proxy is constructed; the
\* proxy is constructed if and only if the configuration can be read and a
\* candidate port is free; once constructed, its listener runs if and only
\* if use_tls = false and the bind of the port succeeds.
C39_ProxyConstructedAfterServices ==
    /\ proxy.st # "unbuilt" =>
          /\ boot.pc = "done" /\ boot.services # "none"
          /\ call.op = "idle"
    /\ boot.pc # "done" => (proxy.st = "unbuilt" /\ serving = {})
    /\ boot.pc = "done" =>
          /\ proxy.st = "built" <=> (pret.op = "new" /\ pret.occupied # PortSet)
          /\ proxy.st = "built" =>
                /\ serving # {} <=> (~pret.use_tls /\ pret.err = "")
                /\ pret.use_tls => ~pret.panicked

\* the service step has spawned a process and ended with an error; the proxy
\* is constructed and listens
C39_Witness ==
    /\ boot = [pc |-> "done", services |-> "err"]
    /\ \E p \in Pids : procs[p] = BinName(svc)
    /\ proxy.st = "built"
    /\ ~pret.use_tls
    /\ serving = {proxy.server_handle}

\* the API uses TLS: the proxy is constructed and does not listen
C39_WitnessTls ==
    /\ boot = [pc |-> "done", services |-> "ok"]
    /\ proxy.st = "built"
    /\ pret.use_tls
    /\ serving = {}

\* task t waits for a lock that task u holds, or that u waits for ahead of t
WaitsFor(t, u) ==
    /\ t # u
    /\ ltask[t].waiting
    /\ LET l == OpOf(t).lock
           q == locks[l].queue IN
       \/ Holds(u, l)
       \/ \E i, j \in DOMAIN q : i < j /\ q[i][1] = u /\ q[j][1] = t

RECURSIVE WaitClosure(_, _)
WaitClosure(S, n) ==
    IF n = 0 THEN S
    ELSE WaitClosure(S \cup {u \in LockTasks : \E v \in S : WaitsFor(v, u)},
                     n - 1)

\* the tasks that t waits for, directly or through others
WaitsOn(t) ==
    WaitClosure({u \in LockTasks : WaitsFor(t, u)}, Cardinality(LockTasks))

\* no cycle of waiting tasks; a task that waits holds nothing, or holds the
\* access logger and waits for debug_mode; and while some task waits, some
\* running task can take its next step
NoLockCycle ==
    /\ \A t \in LockTasks : t \notin WaitsOn(t)
    /\ \A t \in LockTasks : ltask[t].waiting =>
          \A l \in Locks : Holds(t, l) =>
             (l = "access_logger" /\ OpOf(t).lock = "debug_mode")
    /\ (\E t \in LockTasks : ltask[t].waiting) =>
          \E u \in LockTasks : ENABLED Advance(u)
    /\ \A l \in Locks :
          /\ locks[l].writer # "none" => locks[l].readers = {}
          /\ \A i \in DOMAIN locks[l].queue : ltask[locks[l].queue[i][1]].waiting

\* C40: the tasks that take the locks on target_url, debug_mode,
\* access_logger and server_handle (request handling, set_target,
\* set_debug_mode, start, stop, info) never wait for one another in a cycle,
\* and every acquisition a task waits for is granted in the end.
C40_LocksAlwaysGranted ==
    /\ []NoLockCycle
    /\ \A t \in LockTasks : []<>(~ltask[t].waiting)

\* a request holds the access logger and waits for debug_mode behind
\* set_debug_mode, which waits for start to drop its read guard, while the
\* other request waits for the access logger
C40_Witness ==
    /\ Holds("request1", "access_logger")
    /\ ltask["request1"].waiting
    /\ ltask["command1"].kind = "set_debug_mode"
    /\ locks["debug_mode"].queue =
          << <<"command1", "w">>, <<"request1", "r">> >>
    /\ ltask["command2"].kind = "start"
    /\ Holds("command2", "debug_mode")
    /\ locks["access_logger"].queue = << <<"request2", "w">> >>

====
